---- MODULE Spec2Model ----
(***************************************************************************)
(* footy-data-kit: the normalisation of league tables                      *)
(* (wikipedia/generate-output-files.js, wikipedia/utils.js) and the merge  *)
(* of FootballData files (wikipedia/combine-output-files.js).              *)
(*                                                                         *)
(* Encoding of JavaScript values.  TLC compares only values of one type,   *)
(* so every JavaScript value that may be of several types is a record      *)
(* with a kind:                                                            *)
(*   - a string is a sequence of one-character strings;                    *)
(*   - a string or null/undefined is [nil, s];                             *)
(*   - a numeric field is [k, n], k one of "null" (null or undefined),     *)
(*     "empty" (the string ''), "num" (the number n), "numstr" (a string   *)
(*     Number() parses to n), "text" (a string Number() turns into NaN);   *)
(*   - an outcome flag is [k, b], k one of "absent", "bool" (the boolean   *)
(*     b), "other" (a present value that is not a boolean);                *)
(*   - an object with string keys is a function from keys to values.       *)
(***************************************************************************)
EXTENDS Integers, Sequences, FiniteSets, TLC

VARIABLES
    pc,               \* combineFootballDataFiles: "loading", "done" or "idle"
    inputs,           \* the input files read so far, in order (raw JSON values)
    includeEmpty,     \* the includeEmpty option
    combinedDataset,  \* combinedDataset.seasons while the inputs are merged
    finalDataset,     \* finalDataset.seasons, the dataset returned and saved
    stats,            \* the stats object combineFootballDataFiles returns
    call,             \* the normalisation call made last: its name and arguments
    result,           \* what that call returned, or that it raised
    run,              \* a season loop: the program, its options, its range, the file it found
    loopYear,         \* year, the loop variable of the season loop
    at,               \* where the season loop stands
    seasonData,       \* dataset.seasons (aggregateResults.seasons) in memory
    outputFile,       \* the output file on disk
    fetches,          \* what the fetches of the run delivered, in order
    writers,          \* the writeJsonToFile calls in flight, of the loop and of the SIGINT handler
    interrupt         \* whether SIGINT was handled, and the seasons finished by then

vars == <<pc, inputs, includeEmpty, combinedDataset, finalDataset, stats, call, result,
          run, loopYear, at, seasonData, outputFile, fetches, writers, interrupt>>
mergeVars == <<pc, inputs, includeEmpty, combinedDataset, finalDataset, stats>>
normVars == <<call, result>>
scrapeVars == <<run, loopYear, at, seasonData, outputFile, fetches, writers, interrupt>>

-----------------------------------------------------------------------------
(* Strings *)

UpperCase == <<"A", "B", "C", "D", "E", "F", "G", "H", "I", "J", "K", "L", "M", "N", "O", "P", "Q", "R", "S", "T", "U", "V", "W", "X", "Y", "Z">>
LowerCase == <<"a", "b", "c", "d", "e", "f", "g", "h", "i", "j", "k", "l", "m", "n", "o", "p", "q", "r", "s", "t", "u", "v", "w", "x", "y", "z">>
Digits == <<"0", "1", "2", "3", "4", "5", "6", "7", "8", "9">>

IndexIn(c, alphabet) ==
    IF \E i \in 1..Len(alphabet) : alphabet[i] = c
    THEN CHOOSE i \in 1..Len(alphabet) : alphabet[i] = c
    ELSE 0

\* String.prototype.toLowerCase, on the letters A-Z
toLowerCase(s) ==
    [i \in 1..Len(s) |->
        IF IndexIn(s[i], UpperCase) > 0 THEN LowerCase[IndexIn(s[i], UpperCase)] ELSE s[i]]

\* String.prototype.includes
includes(s, pat) ==
    \E i \in 0..(Len(s) - Len(pat)) :
        \A j \in 1..Len(pat) : s[i + j] = pat[j]

\* String.prototype.startsWith
startsWith(s, pat) ==
    /\ Len(s) >= Len(pat)
    /\ \A j \in 1..Len(pat) : s[j] = pat[j]

\* String.prototype.trim, blanks being the whitespace of the model
trim(s) ==
    LET nonBlank == {i \in 1..Len(s) : s[i] # " "} IN
    IF nonBlank = {} THEN <<>>
    ELSE LET first == CHOOSE i \in nonBlank : \A j \in nonBlank : i <= j
             last == CHOOSE i \in nonBlank : \A j \in nonBlank : j <= i
         IN SubSeq(s, first, last)

NullStr == [nil |-> TRUE, s |-> <<>>]
Str(s) == [nil |-> FALSE, s |-> s]

\* The digits a string starts with, after leading blanks (no sign in the model)
RECURSIVE digitPrefix(_)
digitPrefix(s) ==
    IF s = <<>> \/ IndexIn(Head(s), Digits) = 0 THEN <<>>
    ELSE <<IndexIn(Head(s), Digits) - 1>> \o digitPrefix(Tail(s))

RECURSIVE decimalValue(_)
decimalValue(ds) ==
    IF ds = <<>> THEN 0 ELSE 10 * decimalValue(SubSeq(ds, 1, Len(ds) - 1)) + ds[Len(ds)]

RECURSIVE dropLeadingBlanks(_)
dropLeadingBlanks(s) ==
    IF s # <<>> /\ Head(s) = " " THEN dropLeadingBlanks(Tail(s)) ELSE s

\* Number.parseInt(s, 10): [k |-> "num", n] or NaN as [k |-> "null"]
Null == [k |-> "null", n |-> 0]
Num(n) == [k |-> "num", n |-> n]
NumStr(n) == [k |-> "numstr", n |-> n]
EmptyStr == [k |-> "empty", n |-> 0]
Text == [k |-> "text", n |-> 0]
\* a text of more digits than a double can hold, and the number Infinity
Huge == [k |-> "huge", n |-> 0]
Infinity == [k |-> "inf", n |-> 0]

parseInt(s) ==
    LET ds == digitPrefix(dropLeadingBlanks(s)) IN
    IF ds = <<>> THEN Null ELSE Num(decimalValue(ds))

-----------------------------------------------------------------------------
(* wikipedia/utils.js: the outcome of a row, read from its notes *)

wasRelegated(note) ==
    LET n == IF note.nil THEN <<>> ELSE toLowerCase(note.s) IN
    IF n = <<>> THEN FALSE
    ELSE IF includes(n, <<"r", "e", "l", "e", "g", "a", "t">>) THEN TRUE
    ELSE IF includes(n, <<"d", "e", "m", "o", "t", "e", "d", " ", "t", "o", " ", "t", "h", "e">>) THEN TRUE
    ELSE FALSE

wasPromoted(note) ==
    includes(IF note.nil THEN <<>> ELSE toLowerCase(note.s), <<"p", "r", "o", "m", "o", "t">>)

isExpansionTeam(note) ==
    LET n == IF note.nil THEN <<>> ELSE toLowerCase(note.s) IN
    \/ includes(n, <<"e", "x", "p", "a", "n", "s", "i", "o", "n">>)
    \/ includes(n, <<"n", "e", "w", " ", "c", "l", "u", "b">>)
    \/ includes(n, <<"a", "d", "m", "i", "t", "t", "e", "d">>)
    \/ includes(n, <<"j", "o", "i", "n", "e", "d", " ", "l", "e", "a", "g", "u", "e">>)

-----------------------------------------------------------------------------
(* wikipedia/generate-output-files.js: one league table entry *)

NUMBER_FIELDS == {"pos", "played", "won", "drawn", "lost", "goalsFor", "goalsAgainst", "points"}
OPTIONAL_NUMBER_FIELDS == {"goalDifference", "goalAverage"}
BOOLEAN_FIELDS == {"wasRelegated", "wasPromoted", "isExpansionTeam", "wasReElected", "wasReprieved"}

Bool(b) == [k |-> "bool", b |-> b]
Absent == [k |-> "absent", b |-> FALSE]
\* a present value that is not a boolean (null, 1, 'yes'); b is what toBoolean makes of it
Other(b) == [k |-> "other", b |-> b]

\* toNumber raises a TypeError on a value Number() does not turn into a finite number
toNumberRaises(value) == value.k \in {"text", "inf", "huge"}

toNumber(value, allowNull) ==
    IF value.k \in {"null", "empty"}
    THEN (IF allowNull THEN Null ELSE Num(0))
    ELSE Num(value.n)

toStringValue(value) ==
    IF value.nil THEN NullStr
    ELSE LET text == trim(value.s) IN
         IF Len(text) > 0 THEN Str(text) ELSE NullStr

toBoolean(value) ==
    IF value.k = "bool" THEN value.b
    ELSE IF value.k = "absent" THEN FALSE
    ELSE value.b

\* /repriv(?:ed|e)d from re-election/i
matchesReprieved(s) ==
    \/ includes(s, <<"r", "e", "p", "r", "i", "v", "e", "d", "d", " ", "f", "r", "o", "m", " ", "r", "e", "-", "e", "l", "e", "c", "t", "i", "o", "n">>)
    \/ includes(s, <<"r", "e", "p", "r", "i", "v", "e", "d", " ", "f", "r", "o", "m", " ", "r", "e", "-", "e", "l", "e", "c", "t", "i", "o", "n">>)

\* the value the loop over BOOLEAN_FIELDS derives for a flag that is not a boolean
derivedFlag(key, notes) ==
    CASE key = "wasRelegated" -> wasRelegated(notes)
      [] key = "wasPromoted" -> wasPromoted(notes)
      [] key = "isExpansionTeam" -> isExpansionTeam(notes)
      [] key = "wasReElected" ->
            (IF notes.nil THEN FALSE ELSE includes(toLowerCase(notes.s), <<"r", "e", "-", "e", "l", "e", "c", "t", "e", "d">>))
      [] key = "wasReprieved" ->
            (IF notes.nil THEN FALSE ELSE matchesReprieved(toLowerCase(notes.s)))
      [] OTHER -> FALSE

normaliseLeagueTableEntryRaises(raw) ==
    \/ \E key \in NUMBER_FIELDS \cup OPTIONAL_NUMBER_FIELDS : toNumberRaises(raw[key])
    \/ toStringValue(raw.team).nil

AlwaysDerivedFlag(raw, key, notes) == Bool(derivedFlag(key, notes))

\* lines 157-184: a boolean is kept, anything else is derived from the notes
normalisedFlag(raw, key, notes) ==
    LET value == raw[key] IN
    IF value.k = "bool" THEN Bool(toBoolean(value))
    ELSE Bool(toBoolean(Bool(derivedFlag(key, notes))))

normaliseLeagueTableEntry(raw) ==
    LET notes == toStringValue(raw.notes) IN
    [ pos |-> toNumber(raw.pos, FALSE),
      team |-> toStringValue(raw.team),
      played |-> toNumber(raw.played, FALSE),
      won |-> toNumber(raw.won, FALSE),
      drawn |-> toNumber(raw.drawn, FALSE),
      lost |-> toNumber(raw.lost, FALSE),
      goalsFor |-> toNumber(raw.goalsFor, FALSE),
      goalsAgainst |-> toNumber(raw.goalsAgainst, FALSE),
      goalDifference |-> toNumber(raw.goalDifference, TRUE),
      goalAverage |-> toNumber(raw.goalAverage, TRUE),
      points |-> toNumber(raw.points, FALSE),
      notes |-> notes,
      wasRelegated |-> normalisedFlag(raw, "wasRelegated", notes),
      wasPromoted |-> normalisedFlag(raw, "wasPromoted", notes),
      isExpansionTeam |-> normalisedFlag(raw, "isExpansionTeam", notes),
      wasReElected |-> normalisedFlag(raw, "wasReElected", notes),
      wasReprieved |-> normalisedFlag(raw, "wasReprieved", notes) ]

\* sanitizeRows: rows without a team name are dropped, the name is trimmed
RECURSIVE sanitizeRows(_)
sanitizeRows(rows) ==
    IF rows = <<>> THEN <<>>
    ELSE LET row == Head(rows)
             teamName == toStringValue(row.team)
         IN (IF teamName.nil THEN <<>> ELSE <<[row EXCEPT !.team = teamName]>>)
            \o sanitizeRows(Tail(rows))

normaliseRows(rows) ==
    LET sanitized == sanitizeRows(rows) IN
    [i \in 1..Len(sanitized) |-> normaliseLeagueTableEntry(sanitized[i])]

normaliseRowsRaises(rows) ==
    LET sanitized == sanitizeRows(rows) IN
    \E i \in 1..Len(sanitized) : normaliseLeagueTableEntryRaises(sanitized[i])

-----------------------------------------------------------------------------
(* wikipedia/generate-output-files.js: tiers, season records, datasets       *)
(*                                                                         *)
(* A tier value ("block") is [kind, season, table, promoted, relegated,     *)
(* extra]: kind "array" is a bare array of rows (only table counts),        *)
(* "object" a TierData-like object, "junk" a value that is neither (null,   *)
(* a number, a string).  promoted and relegated are [has, l]: has says      *)
(* whether the field is an array, l lists its entries.  extra holds the     *)
(* other fields of the object: title and seasonMetadata ([has, size], the   *)
(* number of keys of the nested object).  A season record is a function    *)
(* from its keys ("tier1", "seasonInfo", ...) to blocks, a dataset (its     *)
(* seasons map) a function from season keys to season records.              *)
(***************************************************************************)

NoList == [has |-> FALSE, l |-> <<>>]
List(l) == [has |-> TRUE, l |-> l]
NoMeta == [has |-> FALSE, size |-> 0]
Meta(n) == [has |-> TRUE, size |-> n]
NoExtra == [title |-> NullStr, seasonMetadata |-> NoMeta]
EmptyMap == [key \in {} |-> NoExtra]

ArrayBlock(rows) ==
    [kind |-> "array", season |-> Null, table |-> rows,
     promoted |-> NoList, relegated |-> NoList, extra |-> NoExtra]
ObjectBlock(season, rows, promoted, relegated, extra) ==
    [kind |-> "object", season |-> season, table |-> rows,
     promoted |-> promoted, relegated |-> relegated, extra |-> extra]
JunkBlock ==
    [kind |-> "junk", season |-> Null, table |-> <<>>,
     promoted |-> NoList, relegated |-> NoList, extra |-> NoExtra]

\* results.add(name) on a Set kept in insertion order
addName(results, name) ==
    IF \E i \in 1..Len(results) : results[i] = name THEN results ELSE Append(results, name)

RECURSIVE explicitNames(_, _)
explicitNames(results, entries) ==
    IF entries = <<>> THEN results
    ELSE LET name == toStringValue(Head(entries)) IN
         explicitNames(IF name.nil THEN results ELSE addName(results, name), Tail(entries))

RECURSIVE flaggedNames(_, _, _)
flaggedNames(results, rows, flag) ==
    IF rows = <<>> THEN results
    ELSE LET row == Head(rows) IN
         flaggedNames(IF row[flag].b /\ ~toStringValue(row.team).nil
                      THEN addName(results, row.team) ELSE results,
                      Tail(rows), flag)

UnionOutcomeList(value, fallbackRows, flag) ==
    flaggedNames(IF value.has THEN explicitNames(<<>>, value.l) ELSE <<>>, fallbackRows, flag)

KeepDuplicatesOutcomeList(value, fallbackRows, flag) ==
    LET named == IF value.has
                 THEN SelectSeq([i \in 1..Len(value.l) |-> toStringValue(value.l[i])],
                                LAMBDA name : ~name.nil)
                 ELSE <<>>
    IN IF Len(named) = 0 /\ Len(fallbackRows) > 0
       THEN LET flagged == SelectSeq(fallbackRows, LAMBDA row : row[flag].b) IN
            [i \in 1..Len(flagged) |-> flagged[i].team]
       ELSE named

\* a normaliseOutcomeList that appends the flagged rows' teams to the names given
ConcatOutcomeList(value, fallbackRows, flag) ==
    LET named == IF value.has THEN explicitNames(<<>>, value.l) ELSE <<>>
        flagged == SelectSeq(fallbackRows, LAMBDA row : row[flag].b)
    IN named \o [i \in 1..Len(flagged) |-> flagged[i].team]

\* the explicit names when there are any, the flagged rows' teams otherwise
normaliseOutcomeList(value, fallbackRows, flag) ==
    LET results == IF value.has THEN explicitNames(<<>>, value.l) ELSE <<>> IN
    IF Len(results) = 0 /\ Len(fallbackRows) > 0
    THEN flaggedNames(results, fallbackRows, flag)
    ELSE results

\* Number.parseInt(String(tierValue.season ?? seasonKey), 10), then the fallbacks
tierSeason(season, seasonKey) ==
    LET parsedSeason == CASE season.k = "null" -> parseInt(seasonKey)
                          [] season.k \in {"num", "numstr"} -> Num(season.n)
                          [] OTHER -> Null
        fallbackSeason == parseInt(seasonKey)
    IN IF parsedSeason.k = "num" THEN parsedSeason
       ELSE IF fallbackSeason.k = "num" THEN fallbackSeason
       ELSE Num(0)

normaliseTierData(tierValue, seasonKey) ==
    LET normalisedTable == normaliseRows(tierValue.table) IN
    [ kind |-> "object",
      season |-> tierSeason(tierValue.season, seasonKey),
      table |-> normalisedTable,
      relegated |-> List(normaliseOutcomeList(tierValue.relegated, normalisedTable, "wasRelegated")),
      promoted |-> List(normaliseOutcomeList(tierValue.promoted, normalisedTable, "wasPromoted")),
      extra |-> tierValue.extra ]

\* arrays become arrays of normalised rows, objects TierData, anything else is left out
normaliseSeasonRecord(seasonValue, seasonKey) ==
    LET kept == {tierKey \in DOMAIN seasonValue : seasonValue[tierKey].kind # "junk"} IN
    [tierKey \in kept |->
        IF seasonValue[tierKey].kind = "array"
        THEN ArrayBlock(normaliseRows(seasonValue[tierKey].table))
        ELSE normaliseTierData(seasonValue[tierKey], seasonKey)]

normaliseSeasonRecordRaises(seasonValue) ==
    \E tierKey \in DOMAIN seasonValue :
        /\ seasonValue[tierKey].kind # "junk"
        /\ normaliseRowsRaises(seasonValue[tierKey].table)

createFootballData(seasonsSource) ==
    [seasonKey \in DOMAIN seasonsSource |->
        normaliseSeasonRecord(seasonsSource[seasonKey], seasonKey)]

createFootballDataRaises(seasonsSource) ==
    \E seasonKey \in DOMAIN seasonsSource : normaliseSeasonRecordRaises(seasonsSource[seasonKey])

\* JSON.stringify of a number and JSON.parse of the text: a number that is not
\* finite is written as null, every other value comes back as it was
jsonNumber(value) == IF value.k = "inf" THEN Null ELSE value

jsonRow(row) == [key \in DOMAIN row |-> IF key \in NUMBER_FIELDS \cup OPTIONAL_NUMBER_FIELDS
                                         THEN jsonNumber(row[key]) ELSE row[key]]

\* saveFootballData, then the JSON.parse of loadFootballData: what the file holds
saveFootballData(data) ==
    [seasonKey \in DOMAIN data |->
        [tierKey \in DOMAIN data[seasonKey] |->
            LET tier == data[seasonKey][tierKey] IN
            [tier EXCEPT !.season = jsonNumber(tier.season),
                         !.table = [i \in 1..Len(tier.table) |-> jsonRow(tier.table[i])]]]]

\* options.metadata: the fields of extra, and a season field the filter leaves out
buildTierData(season, tableRows, options) ==
    LET seasonNumber == parseInt(season)
        normalizedTable == normaliseRows(tableRows)
    IN [ kind |-> "object",
         season |-> (IF seasonNumber.k = "num" THEN seasonNumber ELSE Num(0)),
         table |-> normalizedTable,
         promoted |-> List(normaliseOutcomeList(options.promoted, normalizedTable, "wasPromoted")),
         relegated |-> List(normaliseOutcomeList(options.relegated, normalizedTable, "wasRelegated")),
         extra |-> (IF options.metadata.has
                    THEN [title |-> options.metadata.title,
                          seasonMetadata |-> options.metadata.seasonMetadata]
                    ELSE NoExtra) ]

buildTierDataRaises(tableRows) == normaliseRowsRaises(tableRows)

\* options.metadata of the callers in the season loops
NoMetadata == [has |-> FALSE, season |-> Null, title |-> NullStr, seasonMetadata |-> NoMeta]
Metadata(title, seasonMetadata) ==
    [has |-> TRUE, season |-> Null, title |-> title, seasonMetadata |-> seasonMetadata]

\* a setSeasonRecord that keeps the tiers of the record it finds
MergesIntoExistingRecord(dataset, seasonKey, seasonValue) ==
    LET incoming == normaliseSeasonRecord(seasonValue, seasonKey)
        existing == IF seasonKey \in DOMAIN dataset THEN dataset[seasonKey] ELSE incoming
    IN [key \in DOMAIN dataset \cup {seasonKey} |->
          IF key = seasonKey
          THEN [tierKey \in DOMAIN existing \cup DOMAIN incoming |->
                  IF tierKey \in DOMAIN incoming THEN incoming[tierKey] ELSE existing[tierKey]]
          ELSE dataset[key]]

setSeasonRecord(dataset, seasonKey, seasonValue) ==
    [key \in DOMAIN dataset \cup {seasonKey} |->
        IF key = seasonKey THEN normaliseSeasonRecord(seasonValue, seasonKey) ELSE dataset[key]]

\* the season record of the key, an empty one being put in first when there is none
ensureSeason(seasons, seasonKey) ==
    IF seasonKey \in DOMAIN seasons THEN seasons
    ELSE [key \in DOMAIN seasons \cup {seasonKey} |->
            IF key = seasonKey THEN EmptyMap ELSE seasons[key]]

\* a dataset argument: an object with a seasons map, or one without
Dataset(seasons) == [hasSeasons |-> TRUE, seasons |-> seasons]
NoSeasonsMap == [hasSeasons |-> FALSE, seasons |-> EmptyMap]

\* lines 362-364 and 376-378, and the TypeError of a row of either branch; the
\* rows of an array are normalised as they are, those of an object sanitised first
upsertSeasonTierRaises(dataset, tierValue) ==
    \/ ~dataset.hasSeasons
    \/ tierValue.kind = "junk"
    \/ /\ tierValue.kind = "array"
       /\ \E i \in 1..Len(tierValue.table) : normaliseLeagueTableEntryRaises(tierValue.table[i])
    \/ /\ tierValue.kind = "object"
       /\ normaliseRowsRaises(tierValue.table)

\* the seasons map of the dataset as the call leaves it, returning or raising
upsertSeasonTier(dataset, seasonKey, tierKey, tierValue) ==
    IF ~dataset.hasSeasons THEN dataset.seasons
    ELSE LET ensured == ensureSeason(dataset.seasons, seasonKey) IN
         IF upsertSeasonTierRaises(dataset, tierValue) THEN ensured
         ELSE LET normalised ==
                      IF tierValue.kind = "array"
                      THEN ArrayBlock([i \in 1..Len(tierValue.table) |->
                                          normaliseLeagueTableEntry(tierValue.table[i])])
                      ELSE normaliseTierData(tierValue, seasonKey)
              IN [ensured EXCEPT ![seasonKey] =
                    [key \in DOMAIN ensured[seasonKey] \cup {tierKey} |->
                        IF key = tierKey THEN normalised ELSE ensured[seasonKey][key]]]
-----------------------------------------------------------------------------
(* wikipedia/combine-output-files.js *)

WAR_YEAR_SPANS == {<<1915, 1918>>, <<1940, 1945>>}

\* /^tier/i
isTierKey(key) == startsWith(toLowerCase(key), <<"t", "i", "e", "r">>)

parseSeasonKey(seasonKey) == parseInt(seasonKey)

WarSpanEndExcluded(seasonKey) ==
    LET numeric == parseSeasonKey(seasonKey) IN
    IF numeric.k = "null" THEN FALSE
    ELSE \E span \in WAR_YEAR_SPANS : numeric.n >= span[1] /\ numeric.n < span[2]

isWarSuspensionSeason(seasonKey) ==
    LET numeric == parseSeasonKey(seasonKey) IN
    IF numeric.k = "null" THEN FALSE
    ELSE \E span \in WAR_YEAR_SPANS : numeric.n >= span[1] /\ numeric.n <= span[2]

\* the value of a key the record does not have
UndefinedBlock ==
    [kind |-> "undefined", season |-> Null, table |-> <<>>,
     promoted |-> NoList, relegated |-> NoList, extra |-> NoExtra]

valueAt(record, key) == IF key \in DOMAIN record THEN record[key] ELSE UndefinedBlock

blockHasData(block) ==
    CASE block.kind = "undefined" -> FALSE
      [] block.kind = "array" -> Len(block.table) > 0
      [] block.kind = "junk" -> FALSE
      [] OTHER ->
            \/ Len(block.table) > 0
            \/ (block.promoted.has /\ Len(block.promoted.l) > 0)
            \/ (block.relegated.has /\ Len(block.relegated.l) > 0)
            \/ (block.extra.seasonMetadata.has /\ block.extra.seasonMetadata.size > 0)

HasAnyBlock(seasonRecord) == DOMAIN seasonRecord # {}

seasonHasData(seasonRecord) ==
    \E key \in DOMAIN seasonRecord : blockHasData(seasonRecord[key])

tierHasData(tierValue) == blockHasData(tierValue)

KeepExistingTier(existingTier, incomingTier, withEmpty) ==
    IF existingTier.kind = "undefined" THEN incomingTier ELSE existingTier

ConcatenateTiers(existingTier, incomingTier, withEmpty) ==
    IF existingTier.kind = "undefined" THEN incomingTier
    ELSE IF tierHasData(existingTier) /\ tierHasData(incomingTier)
    THEN [existingTier EXCEPT !.table = existingTier.table \o incomingTier.table]
    ELSE IF tierHasData(incomingTier) THEN incomingTier
    ELSE existingTier

\* a merge that completes the lists of the tier it keeps from the other tier
BorrowsOutcomeLists(existingTier, incomingTier, withEmpty) ==
    IF existingTier.kind = "undefined" THEN incomingTier
    ELSE IF incomingTier.kind = "undefined"
    THEN (IF withEmpty THEN incomingTier ELSE existingTier)
    ELSE IF ~tierHasData(existingTier) /\ tierHasData(incomingTier) THEN incomingTier
    ELSE IF ~tierHasData(incomingTier)
    THEN (IF withEmpty THEN incomingTier ELSE existingTier)
    ELSE [existingTier EXCEPT
            !.promoted = IF Len(@.l) = 0 THEN incomingTier.promoted ELSE @,
            !.relegated = IF Len(@.l) = 0 THEN incomingTier.relegated ELSE @]

mergeTier(existingTier, incomingTier, withEmpty) ==
    IF existingTier.kind = "undefined" THEN incomingTier
    ELSE IF incomingTier.kind = "undefined"
    THEN (IF withEmpty THEN incomingTier ELSE existingTier)
    ELSE IF ~tierHasData(existingTier) /\ tierHasData(incomingTier) THEN incomingTier
    ELSE IF ~tierHasData(incomingTier)
    THEN (IF withEmpty THEN incomingTier ELSE existingTier)
    ELSE existingTier

\* a merge that hands every key to mergeTier
EveryKeyThroughMergeTier(currentRecord, incomingRecord, withEmpty) ==
    [key \in DOMAIN currentRecord \cup DOMAIN incomingRecord |->
        IF key \notin DOMAIN incomingRecord THEN currentRecord[key]
        ELSE mergeTier(valueAt(currentRecord, key), incomingRecord[key], withEmpty)]

\* tier keys go through mergeTier; any other key is filled only when the record lacks it
mergeSeasonRecords(currentRecord, incomingRecord, withEmpty) ==
    [key \in DOMAIN currentRecord \cup DOMAIN incomingRecord |->
        IF key \notin DOMAIN incomingRecord THEN currentRecord[key]
        ELSE IF isTierKey(key)
        THEN mergeTier(valueAt(currentRecord, key), incomingRecord[key], withEmpty)
        ELSE IF key \notin DOMAIN currentRecord \/ currentRecord[key].kind = "undefined"
        THEN incomingRecord[key]
        ELSE currentRecord[key]]

\* lines 159-171: the seasons of one loaded input, merged into combinedDataset.seasons
mergeInput(combined, incoming, withEmpty) ==
    [seasonKey \in DOMAIN combined \cup DOMAIN incoming |->
        IF seasonKey \notin DOMAIN incoming THEN combined[seasonKey]
        ELSE IF seasonKey \notin DOMAIN combined THEN incoming[seasonKey]
        ELSE mergeSeasonRecords(combined[seasonKey], incoming[seasonKey], withEmpty)]

repairRow(row) ==
    IF row.goalsFor.k = "num" /\ row.goalsAgainst.k = "num"
    THEN [row EXCEPT !.goalDifference = Num(row.goalsFor.n - row.goalsAgainst.n)]
    ELSE row

repairTable(block) ==
    [block EXCEPT !.table = [i \in 1..Len(block.table) |-> repairRow(block.table[i])]]

ObjectTablesOnlyRepaired(seasons) ==
    [seasonKey \in DOMAIN seasons |->
        [key \in DOMAIN seasons[seasonKey] |->
            IF seasons[seasonKey][key].kind = "object"
            THEN repairTable(seasons[seasonKey][key])
            ELSE seasons[seasonKey][key]]]

normaliseGoalDifferences(seasons) ==
    [seasonKey \in DOMAIN seasons |->
        [key \in DOMAIN seasons[seasonKey] |->
            IF seasons[seasonKey][key].kind \in {"array", "object"}
            THEN repairTable(seasons[seasonKey][key])
            ELSE seasons[seasonKey][key]]]

loadFootballData(file) == createFootballData(file)

\* lines 177-184: the season keys that go into the final dataset
filteredSeasonKeys(combined, withEmpty) ==
    {seasonKey \in DOMAIN combined :
        /\ ~isWarSuspensionSeason(seasonKey)
        /\ (withEmpty \/ seasonHasData(combined[seasonKey]))}

\* lines 177-194: filter, createFootballData, normaliseGoalDifferences
finalise(combined, withEmpty) ==
    normaliseGoalDifferences(
        createFootballData([seasonKey \in filteredSeasonKeys(combined, withEmpty) |->
                                combined[seasonKey]]))

RECURSIVE mergeAll(_, _, _)
mergeAll(combined, files, withEmpty) ==
    IF files = <<>> THEN combined
    ELSE mergeAll(mergeInput(combined, loadFootballData(Head(files)), withEmpty),
                  Tail(files), withEmpty)

\* the dataset combineFootballDataFiles returns for the inputs, when none fails to load
combineFootballDataFiles(files, withEmpty) ==
    finalise(mergeAll(EmptyMap, files, withEmpty), withEmpty)


\* the stats before the function returns
NoStats ==
    [ mergedSeasonCount |-> 0, inputCount |-> 0, excludedCount |-> 0, totalInputSeasons |-> 0,
      removedWarSeasons |-> 0, missingSeasonNumbers |-> <<>>, nonNumericMissing |-> <<>> ]

\* a list whose order (that of Object.entries) is left out: each value with the
\* number of times it is listed
Listing(keys, valueOf(_)) ==
    [value \in {valueOf(key) : key \in keys} |->
        Cardinality({key \in keys : valueOf(key) = value})]

RECURSIVE totalSeasons(_)
totalSeasons(files) ==
    IF files = <<>> THEN 0
    ELSE Cardinality(DOMAIN loadFootballData(Head(files))) + totalSeasons(Tail(files))

CountsWarSeasonsAsExcluded(combined, files, withEmpty) ==
    LET kept == filteredSeasonKeys(combined, withEmpty)
        excluded == DOMAIN combined \ kept
        parsedYear(seasonKey) == parseSeasonKey(seasonKey).n
        sameKey(seasonKey) == seasonKey
    IN [ mergedSeasonCount |-> Cardinality(kept),
         inputCount |-> Len(files),
         excludedCount |-> Cardinality(excluded),
         totalInputSeasons |-> totalSeasons(files),
         removedWarSeasons |->
             Cardinality({seasonKey \in DOMAIN combined : isWarSuspensionSeason(seasonKey)}),
         missingSeasonNumbers |->
             Listing({seasonKey \in excluded : parseSeasonKey(seasonKey).k # "null"}, parsedYear),
         nonNumericMissing |->
             Listing({seasonKey \in excluded : parseSeasonKey(seasonKey).k = "null"}, sameKey) ]

\* lines 177-217: the stats of the returned object
mergeStats(combined, files, withEmpty) ==
    LET nonWarSeasonKeys == {seasonKey \in DOMAIN combined : ~isWarSuspensionSeason(seasonKey)}
        kept == filteredSeasonKeys(combined, withEmpty)
        excluded == nonWarSeasonKeys \ kept
        parsedYear(seasonKey) == parseSeasonKey(seasonKey).n
        sameKey(seasonKey) == seasonKey
    IN [ mergedSeasonCount |-> Cardinality(kept),
         inputCount |-> Len(files),
         excludedCount |-> Cardinality(excluded),
         totalInputSeasons |-> totalSeasons(files),
         removedWarSeasons |-> Cardinality(DOMAIN combined) - Cardinality(nonWarSeasonKeys),
         missingSeasonNumbers |->
             Listing({seasonKey \in excluded : parseSeasonKey(seasonKey).k # "null"}, parsedYear),
         nonNumericMissing |->
             Listing({seasonKey \in excluded : parseSeasonKey(seasonKey).k = "null"}, sameKey) ]

\* no season loop runs
NoFile == [kind |-> "absent", seasons |-> EmptyMap, size |-> 0]
NoWriter == [phase |-> "idle", payload |-> EmptyMap]
NoSeasonLoop ==
    /\ run = [program |-> "none"]
    /\ loopYear = 0
    /\ at = "idle"
    /\ seasonData = EmptyMap
    /\ outputFile = NoFile
    /\ fetches = <<>>
    /\ writers = [w \in {"loop", "handler"} |-> NoWriter]
    /\ interrupt = [raised |-> FALSE, finished |-> {}]
-----------------------------------------------------------------------------
(* The run of combineFootballDataFiles: the inputs are read one after the    *)
(* other and merged (LoadInput), then the merged seasons are filtered,       *)
(* normalised, repaired and saved (Finish).                                  *)

MaxInputs == 3

\* a raw row as an input file may hold it: no outcome flags, no notes
InputRow(team, goalsFor, goalsAgainst, goalDifference) ==
    [ pos |-> Num(1), team |-> Str(team), played |-> Num(1), won |-> Num(1),
      drawn |-> Num(0), lost |-> Num(0),
      goalsFor |-> Num(goalsFor), goalsAgainst |-> Num(goalsAgainst),
      goalDifference |-> goalDifference, goalAverage |-> Null, points |-> Num(3),
      notes |-> NullStr,
      wasRelegated |-> Absent, wasPromoted |-> Absent, isExpansionTeam |-> Absent,
      wasReElected |-> Absent, wasReprieved |-> Absent ]

RowA == InputRow(<<"A">>, 4, 1, Num(9))    \* records a wrong goal difference
RowB == InputRow(<<"B">>, 2, 0, Null)      \* records none
RowBad == [InputRow(<<"C">>, 1, 1, Num(0)) EXCEPT !.points = Text]   \* toNumber raises

EmptyTier == ObjectBlock(Null, <<>>, List(<<>>), List(<<>>), NoExtra)
TierA == ObjectBlock(Null, <<RowA>>, List(<<>>), List(<<>>), NoExtra)
TierB == ObjectBlock(Null, <<RowB>>, List(<<>>), List(<<>>), NoExtra)
ArrayA == ArrayBlock(<<RowA>>)
EmptyArray == ArrayBlock(<<>>)
ListOnlyTier == ObjectBlock(Null, <<>>, List(<<Str(<<"A">>)>>), NoList, NoExtra)
MetaOnlyTier ==
    ObjectBlock(Null, <<>>, List(<<>>), List(<<>>), [NoExtra EXCEPT !.seasonMetadata = Meta(1)])
BadTier == ObjectBlock(Null, <<RowBad>>, List(<<>>), List(<<>>), NoExtra)

MergeBlocks == {EmptyTier, TierA, TierB, ArrayA, EmptyArray, ListOnlyTier, MetaOnlyTier}

\* season keys around the two war spans, and one that is no number
BoundaryKeys == {<<"1", "9", "1", "4">>, <<"1", "9", "1", "8">>, <<"1", "9", "1", "9">>, <<"1", "9", "3", "9">>, <<"1", "9", "4", "0">>, <<"1", "9", "4", "5">>, <<"1", "9", "4", "6">>, <<"a", "b", "c">>}

\* keys of seasons without data: a war year, a year, the same year with a suffix, no number
ExcludedKeys == {<<"1", "9", "1", "6">>, <<"1", "9", "5", "0">>, <<"1", "9", "5", "0", "b">>, <<"x", "y", "z">>}

\* a file whose seasons `keys` each hold `block` under `blockKey`
FileOf(keys, blockKey, block) ==
    [seasonKey \in keys |-> [key \in {blockKey} |-> block]]

\* a file that is itself the output of a merge
MergedFile == combineFootballDataFiles(<<FileOf({<<"2", "0", "0", "0">>}, <<"t", "i", "e", "r", "1">>, TierA)>>, FALSE)

InputFiles ==
    {FileOf({<<"2", "0", "0", "0">>}, <<"t", "i", "e", "r", "1">>, block) : block \in MergeBlocks}
    \cup {FileOf({<<"2", "0", "0", "0">>}, <<"s", "e", "a", "s", "o", "n", "I", "n", "f", "o">>, block) : block \in {EmptyTier, TierB}}
    \cup {FileOf({<<"2", "0", "0", "0">>}, <<"t", "i", "e", "r", "2">>, TierB)}
    \cup {FileOf(ExcludedKeys, <<"t", "i", "e", "r", "1">>, EmptyTier)}
    \cup {FileOf(BoundaryKeys, <<"t", "i", "e", "r", "1">>, TierA)}
    \cup {FileOf({<<"2", "0", "0", "0">>}, <<"t", "i", "e", "r", "1">>, BadTier)}
    \cup {MergedFile}

Init ==
    /\ pc = "loading"
    /\ inputs = <<>>
    /\ includeEmpty \in BOOLEAN
    /\ combinedDataset = EmptyMap
    /\ finalDataset = EmptyMap
    /\ stats = NoStats
    /\ call = [op |-> "none"]
    /\ result = [raised |-> FALSE]
    /\ NoSeasonLoop

\* lines 149-175, one turn of the loop over the inputs
LoadInput ==
    /\ pc = "loading"
    /\ Len(inputs) < MaxInputs
    /\ \E file \in InputFiles :
        /\ inputs' = Append(inputs, file)
        /\ IF createFootballDataRaises(file)
           THEN /\ pc' = "failed"
                /\ UNCHANGED combinedDataset
           ELSE /\ pc' = "loading"
                /\ combinedDataset' = mergeInput(combinedDataset, loadFootballData(file), includeEmpty)
    /\ UNCHANGED <<includeEmpty, finalDataset, stats, call, result>>
    /\ UNCHANGED scrapeVars

\* lines 177-195, after the last input (there is at least one)
Finish ==
    /\ pc = "loading"
    /\ Len(inputs) >= 1
    /\ pc' = "done"
    /\ finalDataset' = finalise(combinedDataset, includeEmpty)
    /\ stats' = mergeStats(combinedDataset, inputs, includeEmpty)
    /\ UNCHANGED <<inputs, includeEmpty, combinedDataset, call, result>>
    /\ UNCHANGED scrapeVars

Next == LoadInput \/ Finish

Spec == Init /\ [][Next]_vars

-----------------------------------------------------------------------------
(* Calls of the normalisation functions of generate-output-files.js, each    *)
(* on arguments drawn from the sets below; call and result record the one    *)
(* call of a behaviour.                                                      *)

MaxRows == 2

NoteTexts ==
    { NullStr,
      Str(<<"R", "e", "l", "e", "g", "a", "t", "e", "d", " ", "t", "o", " ", "t", "h", "e", " ", "S", "e", "c", "o", "n", "d", " ", "D", "i", "v", "i", "s", "i", "o", "n">>),
      Str(<<"P", "r", "o", "m", "o", "t", "e", "d", " ", "t", "o", " ", "t", "h", "e", " ", "F", "i", "r", "s", "t", " ", "D", "i", "v", "i", "s", "i", "o", "n">>),
      Str(<<"C", "h", "a", "m", "p", "i", "o", "n", "s">>),
      Str(<<"R", "e", "-", "e", "l", "e", "c", "t", "e", "d">>),
      Str(<<"R", "e", "p", "r", "i", "v", "e", "d", " ", "f", "r", "o", "m", " ", "r", "e", "-", "e", "l", "e", "c", "t", "i", "o", "n">>),
      Str(<<"A", "d", "m", "i", "t", "t", "e", "d", " ", "a", "s", " ", "a", " ", "n", "e", "w", " ", "c", "l", "u", "b">>) }

\* rows for normaliseLeagueTableEntry: every flag absent, a boolean or something else
EntryInputs ==
    { [ pos |-> Num(22), team |-> team, played |-> NumStr(42), won |-> Num(10),
        drawn |-> Num(8), lost |-> Num(24), goalsFor |-> Num(45), goalsAgainst |-> Null,
        goalDifference |-> goalDifference, goalAverage |-> Null, points |-> points,
        notes |-> notes,
        wasRelegated |-> relegatedFlag, wasPromoted |-> promotedFlag,
        isExpansionTeam |-> expansionFlag, wasReElected |-> reElectedFlag,
        wasReprieved |-> reprievedFlag ] :
      team \in {Str(<<" ", "E", "v", "e", "r", "t", "o", "n", " ">>), Str(<<" ">>)},
      goalDifference \in {EmptyStr, NumStr(3)},
      points \in {Num(32), Text},
      notes \in NoteTexts,
      relegatedFlag \in {Absent, Other(TRUE), Bool(TRUE), Bool(FALSE)},
      promotedFlag \in {Absent, Other(TRUE), Bool(TRUE), Bool(FALSE)},
      expansionFlag \in {Absent, Bool(TRUE), Bool(FALSE)},
      reElectedFlag \in {Absent, Bool(TRUE), Bool(FALSE)},
      reprievedFlag \in {Absent, Bool(TRUE), Bool(FALSE)} }

\* rows for the tables of a tier
TierRow(team, notes, promotedFlag) ==
    [ pos |-> Num(22), team |-> Str(team), played |-> Num(42), won |-> Num(10),
      drawn |-> Num(8), lost |-> Num(24), goalsFor |-> Num(45), goalsAgainst |-> Num(80),
      goalDifference |-> Null, goalAverage |-> Null, points |-> Num(32),
      notes |-> notes,
      wasRelegated |-> Absent, wasPromoted |-> promotedFlag,
      isExpansionTeam |-> Absent, wasReElected |-> Absent, wasReprieved |-> Absent ]

\* the flag is left to the notes, or says "not promoted" against them
TierRows ==
    { TierRow(team, notes, Absent) :
        team \in {<<"E", "v", "e", "r", "t", "o", "n">>, <<"L", "e", "e", "d", "s">>},
        notes \in {NullStr, Str(<<"R", "e", "l", "e", "g", "a", "t", "e", "d", " ", "t", "o", " ", "t", "h", "e", " ", "S", "e", "c", "o", "n", "d", " ", "D", "i", "v", "i", "s", "i", "o", "n">>), Str(<<"P", "r", "o", "m", "o", "t", "e", "d">>)} }
    \cup { TierRow(team, Str(<<"P", "r", "o", "m", "o", "t", "e", "d">>), Bool(FALSE)) : team \in {<<"E", "v", "e", "r", "t", "o", "n">>, <<"L", "e", "e", "d", "s">>} }

TierTables == UNION {[1..n -> TierRows] : n \in 0..MaxRows}

\* the promoted / relegated lists a caller or a file supplies
PromotedLists ==
    {NoList, List(<<>>), List(<<Str(<<"L", "e", "e", "d", "s">>)>>), List(<<Str(<<"D", "e", "r", "b", "y">>), Str(<<" ", "D", "e", "r", "b", "y">>), Str(<<" ">>)>>)}
RelegatedLists == {NoList, List(<<Str(<<"L", "e", "e", "d", "s">>), Str(<<"L", "e", "e", "d", "s">>)>>)}

\* options.metadata as the season-overview parser passes it: other fields of the
\* tier (title, seasonMetadata) and never a promoted or relegated key
Metadatas ==
    { [has |-> FALSE, season |-> Null, title |-> NullStr, seasonMetadata |-> NoMeta],
      [has |-> TRUE, season |-> Num(1900), title |-> Str(<<"F", "i", "r", "s", "t", " ", "D", "i", "v", "i", "s", "i", "o", "n">>),
       seasonMetadata |-> Meta(4)] }

InitNorm ==
    /\ pc = "idle"
    /\ inputs = <<>>
    /\ includeEmpty = FALSE
    /\ combinedDataset = EmptyMap
    /\ finalDataset = EmptyMap
    /\ stats = NoStats
    /\ call = [op |-> "none"]
    /\ result = [raised |-> FALSE]
    /\ NoSeasonLoop

NormaliseEntry ==
    /\ call.op = "none"
    /\ \E raw \in EntryInputs :
        /\ call' = [op |-> "normaliseLeagueTableEntry", raw |-> raw]
        /\ result' = IF normaliseLeagueTableEntryRaises(raw)
                     THEN [raised |-> TRUE]
                     ELSE [raised |-> FALSE, row |-> normaliseLeagueTableEntry(raw)]
    /\ UNCHANGED <<mergeVars, scrapeVars>>

BuildTier ==
    /\ call.op = "none"
    /\ \E rows \in TierTables, promoted \in PromotedLists, relegated \in RelegatedLists,
          metadata \in Metadatas :
        LET options == [promoted |-> promoted, relegated |-> relegated, metadata |-> metadata] IN
        /\ call' = [op |-> "buildTierData", season |-> <<"1", "9", "5", "0">>, tableRows |-> rows,
                    options |-> options]
        /\ result' = IF buildTierDataRaises(rows)
                     THEN [raised |-> TRUE]
                     ELSE [raised |-> FALSE, tier |-> buildTierData(<<"1", "9", "5", "0">>, rows, options)]
    /\ UNCHANGED <<mergeVars, scrapeVars>>

\* the tier value of a file, or of a season record handed to setSeasonRecord
RawBlock(kind, rows, promoted, relegated) ==
    CASE kind = "array" -> ArrayBlock(rows)
      [] kind = "object" -> ObjectBlock(Null, rows, promoted, relegated, NoExtra)
      [] OTHER -> JunkBlock

CreateData ==
    /\ call.op = "none"
    /\ \E kind \in {"array", "object", "junk"}, rows \in TierTables,
          promoted \in PromotedLists, relegated \in RelegatedLists :
        LET initial == FileOf({<<"1", "9", "0", "1">>}, <<"t", "i", "e", "r", "1">>, RawBlock(kind, rows, promoted, relegated)) IN
        /\ call' = [op |-> "createFootballData", initial |-> initial]
        /\ result' = IF createFootballDataRaises(initial)
                     THEN [raised |-> TRUE]
                     ELSE [raised |-> FALSE, dataset |-> createFootballData(initial)]
    /\ UNCHANGED <<mergeVars, scrapeVars>>

SetSeason ==
    /\ call.op = "none"
    /\ \E kind \in {"array", "object", "junk"}, rows \in TierTables,
          promoted \in PromotedLists, relegated \in RelegatedLists,
          dataset \in {EmptyMap, MergedFile} :
        LET seasonValue == [key \in {<<"t", "i", "e", "r", "2">>} |-> RawBlock(kind, rows, promoted, relegated)] IN
        /\ call' = [op |-> "setSeasonRecord", dataset |-> dataset, seasonKey |-> <<"2", "0", "0", "0">>,
                    seasonValue |-> seasonValue]
        /\ result' = IF normaliseSeasonRecordRaises(seasonValue)
                     THEN [raised |-> TRUE]
                     ELSE [raised |-> FALSE,
                           dataset |-> setSeasonRecord(dataset, <<"2", "0", "0", "0">>, seasonValue)]
    /\ UNCHANGED <<mergeVars, scrapeVars>>

\* rows for upsertSeasonTier: two that normalise, one whose points are a text,
\* one without a team name
UpsertRows ==
    { TierRow(<<"E", "v", "e", "r", "t", "o", "n">>, NullStr, Absent),
      TierRow(<<"L", "e", "e", "d", "s">>, Str(<<"P", "r", "o", "m", "o", "t", "e", "d">>), Absent),
      [TierRow(<<"D", "e", "r", "b", "y">>, NullStr, Absent) EXCEPT !.points = Text],
      TierRow(<<" ">>, NullStr, Absent) }

UpsertTables == UNION {[1..n -> UpsertRows] : n \in 0..MaxRows}

UpsertTier ==
    /\ call.op = "none"
    /\ \E kind \in {"array", "object", "junk"}, rows \in UpsertTables,
          promoted \in PromotedLists,
          dataset \in {NoSeasonsMap, Dataset(EmptyMap), Dataset(MergedFile)},
          seasonKey \in {<<"2", "0", "0", "0">>, <<"2", "0", "0", "1">>}, tierKey \in {<<"t", "i", "e", "r", "1">>, <<"t", "i", "e", "r", "2">>} :
        LET tierValue == RawBlock(kind, rows, promoted, NoList) IN
        /\ call' = [op |-> "upsertSeasonTier", dataset |-> dataset, seasonKey |-> seasonKey,
                    tierKey |-> tierKey, tierValue |-> tierValue]
        /\ result' = [raised |-> upsertSeasonTierRaises(dataset, tierValue),
                      dataset |-> upsertSeasonTier(dataset, seasonKey, tierKey, tierValue)]
    /\ UNCHANGED <<mergeVars, scrapeVars>>

NextNorm == NormaliseEntry \/ BuildTier \/ CreateData \/ SetSeason \/ UpsertTier

SpecNorm == InitNorm /\ [][NextNorm]_vars

-----------------------------------------------------------------------------
(* wikipedia/parse-division-table.js and parse-ext-season-overview-pages.js: *)
(* league tables read from a page.                                          *)
(*                                                                         *)
(* The document is taken as cheerio presents it.  A table is [title,        *)
(* legend, rows]: title is the text of the heading it stands under, legend  *)
(* the "(code) descriptor" entries of the legend node after the table (none *)
(* when there is no such node), rows the <tr> after the header row.  A raw  *)
(* row holds the text of each cell by column (Null where the table has no   *)
(* such column), the codes extractLegendSymbols finds in its team cell, and *)
(* its notes cell: present or not (a cell of an earlier row spans it),      *)
(* with its text and rowspan.                                               *)
(***************************************************************************)

\* num(): the digits of the cell as a number, null for no cell or no digits
\* parseFloat of the digits of the cell: NaN becomes null, Infinity stays
num(value) ==
    IF value.k \in {"num", "numstr"} THEN Num(value.n)
    ELSE IF value.k \in {"huge", "inf"} THEN Infinity
    ELSE Null

isFirstDivision(division) == includes(toLowerCase(division), <<"f", "i", "r", "s", "t">>)

shouldTreatAsTopFlight(title, context) ==
    LET normalized == toLowerCase(title) IN
    IF includes(normalized, <<"p", "r", "e", "m", "i", "e", "r", " ", "l", "e", "a", "g", "u", "e">>) THEN TRUE
    ELSE IF includes(normalized, <<"f", "o", "o", "t", "b", "a", "l", "l", " ", "l", "e", "a", "g", "u", "e", " ", "p", "r", "e", "m", "i", "e", "r", " ", "d", "i", "v", "i", "s", "i", "o", "n">>) THEN TRUE
    ELSE IF includes(normalized, <<"f", "i", "r", "s", "t", " ", "d", "i", "v", "i", "s", "i", "o", "n">>) THEN ~context.hasPremierLeagueHeading
    ELSE FALSE

\* legend[code] of parseLegendText; no entry at all stands for null
parseLegendText(entries) ==
    [code \in {entries[i].code : i \in 1..Len(entries)} |->
        LET descriptors == {toLowerCase(entries[i].descriptor) :
                                i \in {j \in 1..Len(entries) : entries[j].code = code}}
        IN [ promoted |-> \E descriptor \in descriptors :
                              \/ includes(descriptor, <<"p", "r", "o", "m", "o", "t">>)
                              \/ includes(descriptor, <<"p", "l", "a", "y", "o", "f", "f">>)
                              \/ includes(descriptor, <<"p", "l", "a", "y", "-", "o", "f", "f">>),
             relegated |-> \E descriptor \in descriptors :
                              \/ includes(descriptor, <<"r", "e", "l", "e", "g", "a", "t">>)
                              \/ includes(descriptor, <<"d", "e", "m", "o", "t">>) ] ]

\* a legend whose entry decides both flags of the row
LegendDecidesFlags(symbols, row, legendMap, suppressPromotion) ==
    LET entries == {legendMap[symbol] : symbol \in symbols \cap DOMAIN legendMap} IN
    IF entries = {} THEN row
    ELSE [row EXCEPT
            !.wasPromoted = Bool(~suppressPromotion /\ \E entry \in entries : entry.promoted),
            !.wasRelegated = Bool(\E entry \in entries : entry.relegated)]

\* applyLegendStatuses; suppressPromotion is isFirstDivision(division) in
\* parse-division-table.js, and has no counterpart in the overview parser
applyLegendStatuses(symbols, row, legendMap, suppressPromotion) ==
    LET entries == {legendMap[symbol] : symbol \in symbols \cap DOMAIN legendMap} IN
    [row EXCEPT
        !.wasPromoted = IF ~suppressPromotion /\ \E entry \in entries : entry.promoted
                        THEN Bool(TRUE) ELSE @,
        !.wasRelegated = IF \E entry \in entries : entry.relegated THEN Bool(TRUE) ELSE @]

NoCarry == [text |-> NullStr, remaining |-> 0]

\* the notes of a row, from its own cell or from the cell spanning it
rowNotes(raw, notesCarry) ==
    IF raw.notesCell.present
    THEN (IF raw.notesCell.text.nil \/ trim(raw.notesCell.text.s) = <<>>
          THEN NullStr ELSE Str(trim(raw.notesCell.text.s)))
    ELSE IF notesCarry.remaining > 0 THEN notesCarry.text
    ELSE NullStr

\* a carry that is never used up
CarryWithoutCount(raw, notesCarry) ==
    IF raw.notesCell.present
    THEN (IF raw.notesCell.rowspan > 1
          THEN [text |-> raw.notesCell.text, remaining |-> raw.notesCell.rowspan - 1]
          ELSE NoCarry)
    ELSE notesCarry

nextCarry(raw, notesCarry) ==
    IF raw.notesCell.present
    THEN (IF raw.notesCell.rowspan > 1
          THEN [text |-> rowNotes(raw, notesCarry), remaining |-> raw.notesCell.rowspan - 1]
          ELSE NoCarry)
    ELSE IF notesCarry.remaining > 0 THEN [notesCarry EXCEPT !.remaining = @ - 1]
    ELSE notesCarry

\* the row object built from one <tr>
parsedRow(raw, notes, suppressPromotionFlags, legendMap, suppressLegendPromotion) ==
    applyLegendStatuses(raw.symbols,
        [ pos |-> num(raw.pos), team |-> raw.team, played |-> num(raw.played),
          won |-> num(raw.won), drawn |-> num(raw.drawn), lost |-> num(raw.lost),
          goalsFor |-> num(raw.goalsFor), goalsAgainst |-> num(raw.goalsAgainst),
          goalDifference |-> num(raw.goalDifference), goalAverage |-> num(raw.goalAverage),
          points |-> num(raw.points),
          notes |-> notes,
          wasRelegated |-> Bool(wasRelegated(notes)),
          wasPromoted |-> Bool(IF suppressPromotionFlags THEN FALSE ELSE wasPromoted(notes)),
          isExpansionTeam |-> Bool(isExpansionTeam(notes)),
          wasReElected |-> Bool(IF notes.nil THEN FALSE
                                ELSE includes(toLowerCase(notes.s), <<"r", "e", "-", "e", "l", "e", "c", "t", "e", "d">>)),
          wasReprieved |-> Bool(IF notes.nil THEN FALSE
                                ELSE includes(toLowerCase(notes.s), <<"r", "e", "p", "r", "i", "v", "e", "d", " ", "f", "r", "o", "m", " ", "r", "e", "-", "e", "l", "e", "c", "t", "i", "o", "n">>)) ],
        legendMap, suppressLegendPromotion)

\* the loop over the rows of a table, common to both parsers
RECURSIVE parseTableRows(_, _, _, _, _)
parseTableRows(rows, notesCarry, suppressPromotionFlags, legendMap, suppressLegendPromotion) ==
    IF rows = <<>> THEN <<>>
    ELSE LET raw == Head(rows)
             row == parsedRow(raw, rowNotes(raw, notesCarry), suppressPromotionFlags,
                              legendMap, suppressLegendPromotion)
             rest == parseTableRows(Tail(rows), nextCarry(raw, notesCarry),
                                    suppressPromotionFlags, legendMap, suppressLegendPromotion)
         IN IF ~row.team.nil /\ row.pos.k # "null" THEN <<row>> \o rest ELSE rest

\* parse-ext-season-overview-pages.js
parseLeagueTable(table, suppressPromotionFlags) ==
    parseTableRows(table.rows, NoCarry, suppressPromotionFlags,
                   parseLegendText(table.legend), FALSE)

\* parseOverviewLeagueTables: the entries of the tables of the page, in order
hasPremierLeagueHeading(page) ==
    \E i \in 1..Len(page) : includes(toLowerCase(page[i].title), <<"p", "r", "e", "m", "i", "e", "r", " ", "l", "e", "a", "g", "u", "e">>)

parseOverviewLeagueTables(page) ==
    LET context == [hasPremierLeagueHeading |-> hasPremierLeagueHeading(page)]
        entry(i) == [title |-> page[i].title,
                     rows |-> parseLeagueTable(page[i],
                                  shouldTreatAsTopFlight(page[i].title, context))]
    IN SelectSeq([i \in 1..Len(page) |-> entry(i)], LAMBDA e : Len(e.rows) > 0)

\* parse-division-table.js: the table under the heading of the division
parseDivisionTable(table, division) ==
    parseTableRows(table.rows, NoCarry, isFirstDivision(division),
                   parseLegendText(table.legend), isFirstDivision(division))

-----------------------------------------------------------------------------
(* parse-ext-season-overview-pages.js: the walk over the siblings of a      *)
(* heading.  A document is the sequence of the sibling nodes of the page    *)
(* content: a heading wrapper (class mw-heading<level>), a wikitable, or    *)
(* any other block, which may hold wikitables inside it.  A cursor is an    *)
(* index; an index past the end is the empty selection.  A table is named   *)
(* by the index of the node that is or holds it.                            *)
(***************************************************************************)

HeadingNode(level) == [kind |-> "heading", level |-> level, tables |-> 0]
TableNode == [kind |-> "table", level |-> 0, tables |-> 1]
BlockNode(tables) == [kind |-> "block", level |-> 0, tables |-> tables]

\* the level in the class of a heading wrapper, null (0) for any other node
getHeadingLevel(nodes, cursor) ==
    IF cursor > Len(nodes) THEN 0
    ELSE IF nodes[cursor].kind = "heading" THEN nodes[cursor].level ELSE 0

\* a walk that takes a nested heading as one more node
StepsOverHeading(nodes, headingEl, level) == headingEl + 1

\* skipSection: the cursor at the next heading of this level or above, or past the end
RECURSIVE skipSectionFrom(_, _, _)
skipSectionFrom(nodes, cursor, level) ==
    IF cursor > Len(nodes) THEN cursor
    ELSE LET cursorLevel == getHeadingLevel(nodes, cursor) IN
         IF cursorLevel > 0
         THEN (IF cursorLevel <= level THEN cursor
               ELSE skipSectionFrom(nodes, skipSectionFrom(nodes, cursor + 1, cursorLevel), level))
         ELSE skipSectionFrom(nodes, cursor + 1, level)

skipSection(nodes, headingEl, level) ==
    IF headingEl > Len(nodes) THEN headingEl ELSE skipSectionFrom(nodes, headingEl + 1, level)

\* the while loop of parseTablesForHeading over searchNode
RECURSIVE searchTables(_, _, _, _)
searchTables(nodes, searchNode, level, tables) ==
    IF searchNode > Len(nodes) THEN tables
    ELSE LET searchLevel == getHeadingLevel(nodes, searchNode) IN
         IF searchLevel > 0
         THEN (IF searchLevel <= level THEN tables
               ELSE searchTables(nodes, skipSection(nodes, searchNode, searchLevel), level, tables))
         ELSE searchTables(nodes, searchNode + 1, level,
                  tables \o [i \in 1..nodes[searchNode].tables |-> searchNode])

\* parseTablesForHeading: the tables collected for the heading wrapper
parseTablesForHeading(nodes, headingWrapper) ==
    LET level == getHeadingLevel(nodes, headingWrapper) IN
    IF level = 0 THEN <<>> ELSE searchTables(nodes, headingWrapper + 1, level, <<>>)
-----------------------------------------------------------------------------
(* Calls of the two table parsers on pages drawn from the sets below; call   *)
(* and result record the call, as for the normalisation functions.          *)

\* a <tr> of a league table
RawRow(pos, team, points, goalDifference, notesCell, symbols) ==
    [ pos |-> pos, team |-> team, played |-> NumStr(42), won |-> NumStr(10),
      drawn |-> NumStr(8), lost |-> NumStr(24), goalsFor |-> NumStr(45),
      goalsAgainst |-> NumStr(80), goalDifference |-> goalDifference, goalAverage |-> Null,
      points |-> points, notesCell |-> notesCell, symbols |-> symbols ]

NotesCell(text, rowspan) == [present |-> TRUE, text |-> text, rowspan |-> rowspan]
SpannedNotes == [present |-> FALSE, text |-> NullStr, rowspan |-> 1]

NotesCells ==
    { NotesCell(NullStr, 1), NotesCell(Str(<<"P", "r", "o", "m", "o", "t", "e", "d">>), 1), NotesCell(Str(<<"P", "r", "o", "m", "o", "t", "e", "d">>), 2),
      NotesCell(Str(<<"R", "e", "l", "e", "g", "a", "t", "e", "d">>), 1), SpannedNotes }

\* complete rows with every notes cell, with and without the symbol (P); a row
\* without position, one without team, one with cells that hold no number, one
\* with a points cell of more than 308 digits
PageRows ==
    { RawRow(NumStr(1), Str(<<"L", "e", "e", "d", "s">>), NumStr(32), Null, notesCell, symbols) :
        notesCell \in NotesCells, symbols \in {{}, {"P"}} }
    \cup { RawRow(EmptyStr, Str(<<"D", "e", "r", "b", "y">>), NumStr(32), Null, NotesCell(NullStr, 1), {}),
           RawRow(NumStr(2), NullStr, NumStr(32), Null, NotesCell(NullStr, 1), {}),
           RawRow(NumStr(3), Str(<<"B", "u", "r", "y">>), Text, EmptyStr, NotesCell(NullStr, 1), {}),
           RawRow(NumStr(4), Str(<<"H", "u", "l", "l">>), Huge, Null, NotesCell(NullStr, 1), {}) }

PageTables == UNION {[1..n -> PageRows] : n \in 0..MaxRows}

\* tables one row longer, for the notes cells that span rows: complete rows with
\* a notes cell of their own (spanning 1, 2 or 3 rows) or without one, and a
\* row without a team name that has no notes cell either
SpanRows ==
    { RawRow(NumStr(1), Str(<<"L", "e", "e", "d", "s">>), NumStr(32), Null, notesCell, {}) :
        notesCell \in { NotesCell(NullStr, 1), NotesCell(Str(<<"P", "r", "o", "m", "o", "t", "e", "d">>), 2),
                        NotesCell(Str(<<"R", "e", "l", "e", "g", "a", "t", "e", "d">>), 3), SpannedNotes } }
    \cup { RawRow(NumStr(2), NullStr, NumStr(32), Null, SpannedNotes, {}) }

SpanTables == [1..(MaxRows + 1) -> SpanRows]

LegendEntry(code, descriptor) == [code |-> code, descriptor |-> descriptor]
Legends ==
    { <<>>,
      <<LegendEntry("C", <<"C", "h", "a", "m", "p", "i", "o", "n", "s">>), LegendEntry("P", <<"P", "r", "o", "m", "o", "t", "e", "d">>)>>,
      <<LegendEntry("P", <<"P", "l", "a", "y", "-", "o", "f", "f", " ", "w", "i", "n", "n", "e", "r", "s">>), LegendEntry("R", <<"R", "e", "l", "e", "g", "a", "t", "e", "d">>)>> }

\* the headings of a page: the title of the table, and whether another heading
\* of the page reads "Premier League"
Headings ==
    { [title |-> <<"P", "r", "e", "m", "i", "e", "r", " ", "L", "e", "a", "g", "u", "e">>, other |-> FALSE],
      [title |-> <<"F", "o", "o", "t", "b", "a", "l", "l", " ", "L", "e", "a", "g", "u", "e", " ", "P", "r", "e", "m", "i", "e", "r", " ", "D", "i", "v", "i", "s", "i", "o", "n">>, other |-> FALSE],
      [title |-> <<"F", "i", "r", "s", "t", " ", "D", "i", "v", "i", "s", "i", "o", "n">>, other |-> FALSE],
      [title |-> <<"F", "i", "r", "s", "t", " ", "D", "i", "v", "i", "s", "i", "o", "n">>, other |-> TRUE],
      [title |-> <<"S", "e", "c", "o", "n", "d", " ", "D", "i", "v", "i", "s", "i", "o", "n">>, other |-> FALSE] }

Table(title, legend, rows) == [title |-> title, legend |-> legend, rows |-> rows]

PageOf(heading, legend, rows) ==
    IF heading.other
    THEN <<Table(<<"P", "r", "e", "m", "i", "e", "r", " ", "L", "e", "a", "g", "u", "e">>, <<>>, <<>>), Table(heading.title, legend, rows)>>
    ELSE <<Table(heading.title, legend, rows)>>

InitParse ==
    /\ pc = "idle"
    /\ inputs = <<>>
    /\ includeEmpty = FALSE
    /\ combinedDataset = EmptyMap
    /\ finalDataset = EmptyMap
    /\ stats = NoStats
    /\ call = [op |-> "none"]
    /\ result = [raised |-> FALSE]
    /\ NoSeasonLoop

ParseDivision ==
    /\ call.op = "none"
    /\ \E division \in {<<"f", "i", "r", "s", "t">>, <<"s", "e", "c", "o", "n", "d">>}, legend \in Legends,
          rows \in PageTables \cup SpanTables :
        LET table == Table(IF division = <<"f", "i", "r", "s", "t">> THEN <<"F", "i", "r", "s", "t", " ", "D", "i", "v", "i", "s", "i", "o", "n">>
                           ELSE <<"S", "e", "c", "o", "n", "d", " ", "D", "i", "v", "i", "s", "i", "o", "n">>, legend, rows) IN
        /\ call' = [op |-> "parseDivisionTable", table |-> table, division |-> division]
        /\ result' = [raised |-> FALSE, rows |-> parseDivisionTable(table, division)]
    /\ UNCHANGED <<mergeVars, scrapeVars>>

ParseOverview ==
    /\ call.op = "none"
    /\ \E heading \in Headings, legend \in Legends, rows \in PageTables \cup SpanTables :
        LET page == PageOf(heading, legend, rows) IN
        /\ call' = [op |-> "parseOverviewLeagueTables", page |-> page]
        /\ result' = [raised |-> FALSE, overview |-> parseOverviewLeagueTables(page)]
    /\ UNCHANGED <<mergeVars, scrapeVars>>

\* constructTier1SeasonResults / buildSeasonOverviewSeasonRecord and setSeasonRecord
\* on the rows parseDivisionTable returned for a page
StoreParsed ==
    /\ call.op = "none"
    /\ \E division \in {<<"f", "i", "r", "s", "t">>, <<"s", "e", "c", "o", "n", "d">>}, legend \in Legends, rows \in PageTables :
        LET table == Table(IF division = <<"f", "i", "r", "s", "t">> THEN <<"F", "i", "r", "s", "t", " ", "D", "i", "v", "i", "s", "i", "o", "n">>
                           ELSE <<"S", "e", "c", "o", "n", "d", " ", "D", "i", "v", "i", "s", "i", "o", "n">>, legend, rows)
            parsed == parseDivisionTable(table, division)
            options == [promoted |-> NoList, relegated |-> NoList, metadata |-> NoMetadata]
        IN
        /\ call' = [op |-> "buildTierData", table |-> table, division |-> division,
                    tableRows |-> parsed]
        /\ result' = IF buildTierDataRaises(parsed)
                     THEN [raised |-> TRUE]
                     ELSE [raised |-> FALSE,
                           dataset |-> setSeasonRecord(EmptyMap, <<"1", "9", "5", "0">>,
                               [key \in {<<"t", "i", "e", "r", "1">>} |-> buildTierData(<<"1", "9", "5", "0">>, parsed, options)])]
    /\ UNCHANGED <<mergeVars, scrapeVars>>

\* the nodes of a document: headings of three levels, a wikitable, a block
\* without and one with a wikitable inside
Nodes == {HeadingNode(2), HeadingNode(3), HeadingNode(4), TableNode, BlockNode(0), BlockNode(1)}

Documents == UNION {[1..n -> Nodes] : n \in 1..(MaxRows + 3)}

\* parseTablesForHeading on every heading wrapper of a document
ParseHeadings ==
    /\ call.op = "none"
    /\ \E nodes \in Documents :
        /\ call' = [op |-> "parseTablesForHeading", nodes |-> nodes]
        /\ result' = [raised |-> FALSE,
                      tables |-> [headingWrapper \in {i \in 1..Len(nodes) : nodes[i].kind = "heading"}
                                     |-> parseTablesForHeading(nodes, headingWrapper)]]
    /\ UNCHANGED <<mergeVars, scrapeVars>>

NextParse == ParseDivision \/ ParseOverview \/ StoreParsed \/ ParseHeadings

SpecParse == InitParse /\ [][NextParse]_vars
-----------------------------------------------------------------------------
(* The season loops: buildPromotionRelegation (wikipedia/parse-season-pages), *)
(* buildSeasonOverview (wikipedia/parse-ext-season-overview-pages) and the   *)
(* range mode of the scrape action of rsssf/cli.js.                         *)
(*                                                                         *)
(* What a fetch delivers is [ok, tables]: ok is FALSE when the page could   *)
(* not be fetched, tables are the parsed tables of the page, each [title,   *)
(* rows] (for buildPromotionRelegation the first is the First Division      *)
(* table and the second the Second Division table; for the RSSSF page they  *)
(* are the competitions).  Of the metadata the loops hand to buildTierData  *)
(* the model keeps title and seasonMetadata.                                *)
(***************************************************************************)

\* String(n) of a natural number
RECURSIVE String(_)
String(n) == IF n < 10 THEN <<Digits[n + 1]>> ELSE String(n \div 10) \o <<Digits[(n % 10) + 1]>>

WWI_SUSPENSION_YEARS == 1915..1919
WWII_SUSPENSION_YEARS == 1940..1946

\* the war years of the merge (WAR_YEAR_SPANS) in place of those of the scrapers
WarYearsOfTheMerge(year) == year \in (1915..1918) \cup (1940..1945)

isWarSuspensionYear(year) == year \in WWI_SUSPENSION_YEARS \cup WWII_SUSPENSION_YEARS

\* /^tier\d+/i
isNumberedTierKey(key) ==
    /\ Len(key) > 4
    /\ toLowerCase(SubSeq(key, 1, 4)) = <<"t", "i", "e", "r">>
    /\ IndexIn(key[5], Digits) > 0

\* one seasonHasTierData for both loops: any tier<n> with a non-empty table
AnyNumberedTierHasData(dataset, seasonKey, program) ==
    /\ seasonKey \in DOMAIN dataset
    /\ \E key \in DOMAIN dataset[seasonKey] :
          isNumberedTierKey(key) /\ Len(dataset[seasonKey][key].table) > 0

\* seasonHasTierData of either file: a tier1/tier2 (a tier<n>) with a non-empty table
seasonHasTierData(dataset, seasonKey, program) ==
    /\ seasonKey \in DOMAIN dataset
    /\ \E key \in DOMAIN dataset[seasonKey] :
          /\ IF program = "buildPromotionRelegation" THEN key \in {<<"t", "i", "e", "r", "1">>, <<"t", "i", "e", "r", "2">>}
             ELSE isNumberedTierKey(key)
          /\ Len(dataset[seasonKey][key].table) > 0

\* row.team of the rows whose flag is true, in table order
RECURSIVE outcomeTeams(_, _, _)
outcomeTeams(results, rows, flag) ==
    IF rows = <<>> THEN results
    ELSE outcomeTeams(IF Head(rows)[flag].b /\ ~Head(rows).team.nil
                      THEN addName(results, Head(rows).team) ELSE results,
                      Tail(rows), flag)

RECURSIVE collectOutcomeTeams(_, _, _)
collectOutcomeTeams(results, tables, flag) ==
    IF tables = <<>> THEN results
    ELSE collectOutcomeTeams(outcomeTeams(results, Head(tables).rows, flag), Tail(tables), flag)

tableRows(tables, i) == IF i <= Len(tables) THEN tables[i].rows ELSE <<>>

\* constructTier1SeasonResults: the lists keep one entry per flagged row
flaggedTeams(rows, flag) ==
    LET flagged == SelectSeq(rows, LAMBDA row : row[flag].b) IN
    [i \in 1..Len(flagged) |-> flagged[i].team]

constructTier1SeasonResults(tier1SeasonTable, tier2SeasonTable, year) ==
    [ tier1 |-> buildTierData(String(year), tier1SeasonTable,
                    [promoted |-> List(flaggedTeams(tier2SeasonTable, "wasPromoted")),
                     relegated |-> NoList, metadata |-> Metadata(NullStr, NoMeta)]),
      tier2 |-> buildTierData(String(year), tier2SeasonTable,
                    [promoted |-> NoList, relegated |-> NoList,
                     metadata |-> Metadata(NullStr, NoMeta)]) ]

\* lines 118-142 of buildPromotionRelegation: the season record handed to setSeasonRecord
promotionRelegationRecord(tables, year) ==
    LET seasonRecord(tier2, tier1Results, tier2Results) ==
            [key \in {<<"s", "e", "a", "s", "o", "n", "I", "n", "f", "o">>, <<"t", "i", "e", "r", "1">>} \cup (IF Len(tier2) > 0 THEN {<<"t", "i", "e", "r", "2">>} ELSE {}) |->
                IF key = <<"s", "e", "a", "s", "o", "n", "I", "n", "f", "o">>
                THEN buildTierData(String(year), <<>>,
                         [promoted |-> tier1Results.promoted,
                          relegated |-> tier1Results.relegated,
                          metadata |-> Metadata(NullStr, NoMeta)])
                ELSE IF key = <<"t", "i", "e", "r", "1">> THEN [tier1Results EXCEPT !.promoted = List(<<>>)]
                ELSE tier2Results]
        built(tier2, results) == seasonRecord(tier2, results.tier1, results.tier2)
    IN built(tableRows(tables, 2),
             constructTier1SeasonResults(tableRows(tables, 1), tableRows(tables, 2), year))

buildSeasonOverviewSeasonRecord(seasonYear, tables) ==
    LET seasonInfo == buildTierData(String(seasonYear), <<>>,
                          [promoted |-> List(collectOutcomeTeams(<<>>, tables, "wasPromoted")),
                           relegated |-> List(collectOutcomeTeams(<<>>, tables, "wasRelegated")),
                           metadata |-> Metadata(NullStr, NoMeta)])
        tierKey(i) == <<"t", "i", "e", "r">> \o String(i)
    IN [key \in {<<"s", "e", "a", "s", "o", "n", "I", "n", "f", "o">>} \cup {tierKey(i) : i \in 1..Len(tables)} |->
            IF key = <<"s", "e", "a", "s", "o", "n", "I", "n", "f", "o">> THEN seasonInfo
            ELSE LET i == CHOOSE j \in 1..Len(tables) : tierKey(j) = key IN
                 buildTierData(String(seasonYear), tables[i].rows,
                     [promoted |-> NoList, relegated |-> NoList,
                      metadata |-> Metadata(Str(tables[i].title), Meta(4))])]

\* rsssf/cli.js: the records of the aggregate are stored as built, not normalised
buildEmptySeasonRecord(startYear) ==
    [key \in {<<"t", "i", "e", "r", "1">>} |-> ObjectBlock(Num(startYear), <<>>, List(<<>>), List(<<>>), NoExtra)]

summariseTierOneCompetition(competition, seasonYear) ==
    ObjectBlock(Num(seasonYear), competition.rows,
                List(flaggedTeams(competition.rows, "wasPromoted")),
                List(flaggedTeams(competition.rows, "wasRelegated")), NoExtra)

\* buildSeasonRecordFromParsed(...) || buildEmptySeasonRecord(...)
buildSeasonRecordFromParsed(competitions, startYear) ==
    IF competitions = <<>> THEN buildEmptySeasonRecord(startYear)
    ELSE [key \in {<<"t", "i", "e", "r">> \o String(i) : i \in 1..Len(competitions)} |->
            IF key = <<"t", "i", "e", "r", "1">> THEN summariseTierOneCompetition(competitions[1], startYear)
            ELSE LET i == CHOOSE j \in 1..Len(competitions) : <<"t", "i", "e", "r">> \o String(j) = key IN
                 ArrayBlock(competitions[i].rows)]

\* the season record a loop stores for what the fetch delivered
builtSeasonRecord(program, year, fetched) ==
    CASE program = "buildPromotionRelegation" -> promotionRelegationRecord(fetched.tables, year)
      [] program = "buildSeasonOverview" -> buildSeasonOverviewSeasonRecord(year, fetched.tables)
      [] OTHER -> IF fetched.ok THEN buildSeasonRecordFromParsed(fetched.tables, year)
                  ELSE buildEmptySeasonRecord(year)

\* a loop that leaves out the season whose page could not be fetched
OmitsFailedSeason(program, dataset, year, fetched) ==
    LET stored(seasonKey, seasonRecord) ==
            IF program = "scrape"
            THEN [key \in DOMAIN dataset \cup {seasonKey} |->
                    IF key = seasonKey THEN seasonRecord ELSE dataset[key]]
            ELSE setSeasonRecord(dataset, seasonKey, seasonRecord)
    IN IF ~fetched.ok THEN dataset
       ELSE stored(String(year), builtSeasonRecord(program, year, fetched))

\* the dataset after the loop stored the record: setSeasonRecord normalises it,
\* the RSSSF aggregate takes it as it is
storeSeason(program, dataset, year, fetched) ==
    LET stored(seasonKey, seasonRecord) ==
            IF program = "scrape"
            THEN [key \in DOMAIN dataset \cup {seasonKey} |->
                    IF key = seasonKey THEN seasonRecord ELSE dataset[key]]
            ELSE setSeasonRecord(dataset, seasonKey, seasonRecord)
    IN stored(String(year), builtSeasonRecord(program, year, fetched))

\* a loop that stores the record of every fetch
OverwritesEveryFetch(options, dataset, year, fetched) == FALSE

\* forceUpdate && existingRecord && no data returned: the record is left as it is
keepsExisting(options, dataset, year, fetched) ==
    /\ options.forceUpdate
    /\ String(year) \in DOMAIN dataset
    /\ \A i \in 1..Len(fetched.tables) : Len(fetched.tables[i].rows) = 0

\* the checks at the head of the loop body that skip a year without a fetch
skipsSeason(program, options, dataset, year) ==
    \/ ~options.forceUpdate /\ options.updateOnly /\ seasonHasTierData(dataset, String(year), program)
    \/ options.ignoreWarYears /\ isWarSuspensionYear(year)
-----------------------------------------------------------------------------
(* The specification of the season loops.                                   *)
(*                                                                         *)
(* A behaviour is one run of one of the three programs over a range of at   *)
(* most MaxYears years.  buildPromotionRelegation and buildSeasonOverview   *)
(* are interrupted by SIGINT only where they await a fetch: the handler of  *)
(* wikipedia/cli.js calls process.exit, and handlers run between the steps  *)
(* of the loop.  Their saveFootballData is synchronous, so one step sets    *)
(* the record and writes the file.  writeJsonToFile of rsssf/cli.js awaits  *)
(* mkdir and then writeFile, which opens the file (truncating it), writes   *)
(* the text and closes; the loop and the SIGINT handler go through these    *)
(* steps independently.  The size of a text is the number of its seasons    *)
(* plus one: within a run the aggregate only gains seasons.                 *)
(***************************************************************************)

MaxYears == 2

StartYears == {1914, 1919, 1939, 1946}

Programs == {"buildPromotionRelegation", "buildSeasonOverview", "scrape"}

ScrapedRow(team, promotedFlag, relegatedFlag) ==
    [ pos |-> Num(1), team |-> Str(team), played |-> Num(2), won |-> Num(1),
      drawn |-> Num(0), lost |-> Num(1), goalsFor |-> Num(3), goalsAgainst |-> Num(2),
      goalDifference |-> Null, goalAverage |-> Null, points |-> Num(2),
      notes |-> NullStr,
      wasRelegated |-> Bool(relegatedFlag), wasPromoted |-> Bool(promotedFlag),
      isExpansionTeam |-> Bool(FALSE), wasReElected |-> Bool(FALSE), wasReprieved |-> Bool(FALSE) ]

ScrapedTable(title, rows) == [title |-> title, rows |-> rows]

FailedFetch == [ok |-> FALSE, tables |-> <<>>]
NoTables == [ok |-> TRUE, tables |-> <<>>]
OneTable ==
    [ok |-> TRUE,
     tables |-> <<ScrapedTable(<<"F", "i", "r", "s", "t", " ", "D", "i", "v", "i", "s", "i", "o", "n">>, <<ScrapedRow(<<"S", "t", "o", "k", "e">>, FALSE, TRUE)>>)>>]
TwoTables ==
    [ok |-> TRUE,
     tables |-> <<ScrapedTable(<<"F", "i", "r", "s", "t", " ", "D", "i", "v", "i", "s", "i", "o", "n">>, <<ScrapedRow(<<"B", "u", "r", "y">>, FALSE, TRUE)>>),
                  ScrapedTable(<<"S", "e", "c", "o", "n", "d", " ", "D", "i", "v", "i", "s", "i", "o", "n">>, <<ScrapedRow(<<"L", "e", "e", "d", "s">>, TRUE, FALSE)>>)>>]
\* a page whose third table alone has rows
ThirdTableOnly ==
    [ok |-> TRUE,
     tables |-> <<ScrapedTable(<<"F", "i", "r", "s", "t", " ", "D", "i", "v", "i", "s", "i", "o", "n">>, <<>>),
                  ScrapedTable(<<"S", "e", "c", "o", "n", "d", " ", "D", "i", "v", "i", "s", "i", "o", "n">>, <<>>),
                  ScrapedTable(<<"T", "h", "i", "r", "d", " ", "D", "i", "v", "i", "s", "i", "o", "n">>, <<ScrapedRow(<<"H", "u", "l", "l">>, FALSE, FALSE)>>)>>]

Fetched == {FailedFetch, NoTables, OneTable, TwoTables}

FileOfSeasons(seasons) ==
    [kind |-> "complete", seasons |-> seasons, size |-> Cardinality(DOMAIN seasons) + 1]

\* the output file the run finds: none, or the file of an earlier run that stored
\* the first year of the range (with data, after a failed fetch, or, in a file
\* of the overview parser or a merged file, with data in the third tier only)
FoundFiles(program, startYear) ==
    {NoFile}
    \cup { FileOfSeasons(storeSeason(program, EmptyMap, startYear, fetched)) :
             fetched \in {FailedFetch, OneTable} }
    \cup (IF program = "scrape" THEN {}
          ELSE {FileOfSeasons(storeSeason("buildSeasonOverview", EmptyMap, startYear, ThirdTableOnly))})

Options ==
    [updateOnly : BOOLEAN, forceUpdate : BOOLEAN, ignoreWarYears : BOOLEAN]
NoOptions == [updateOnly |-> FALSE, forceUpdate |-> FALSE, ignoreWarYears |-> FALSE]

\* loadFootballData(outputFile); the range mode of rsssf/cli.js starts from { seasons: {} }
InitScrape ==
    /\ pc = "idle"
    /\ inputs = <<>>
    /\ includeEmpty = FALSE
    /\ combinedDataset = EmptyMap
    /\ finalDataset = EmptyMap
    /\ stats = NoStats
    /\ call = [op |-> "none"]
    /\ result = [raised |-> FALSE]
    /\ \E program \in Programs, startYear \in StartYears, length \in 1..MaxYears :
        /\ \E options \in (IF program = "scrape" THEN {NoOptions} ELSE Options),
              found \in FoundFiles(program, startYear) :
            /\ run = [program |-> program, options |-> options, startYear |-> startYear,
                      endYear |-> startYear + length - 1, found |-> found]
            /\ outputFile = found
            /\ seasonData = IF program = "scrape" THEN EmptyMap ELSE found.seasons
        /\ loopYear = startYear
    /\ at = "loop"
    /\ fetches = <<>>
    /\ writers = [w \in {"loop", "handler"} |-> NoWriter]
    /\ interrupt = [raised |-> FALSE, finished |-> {}]

\* the head of the loop body: the year is skipped, or its page is requested
StartSeason ==
    /\ at = "loop"
    /\ loopYear <= run.endYear
    /\ IF skipsSeason(run.program, run.options, seasonData, loopYear)
       THEN /\ loopYear' = loopYear + 1
            /\ UNCHANGED at
       ELSE /\ at' = "fetching"
            /\ UNCHANGED loopYear
    /\ UNCHANGED <<run, seasonData, outputFile, fetches, writers, interrupt>>
    /\ UNCHANGED <<mergeVars, normVars>>

\* buildPromotionRelegation / buildSeasonOverview after the await of the fetch:
\* the record is set and the dataset saved, or the existing record is kept
StoreSeason ==
    /\ at = "fetching"
    /\ run.program # "scrape"
    /\ \E fetched \in Fetched :
        /\ fetches' = Append(fetches, [year |-> loopYear, ok |-> fetched.ok, tables |-> fetched.tables])
        /\ IF keepsExisting(run.options, seasonData, loopYear, fetched)
           THEN UNCHANGED <<seasonData, outputFile>>
           ELSE /\ seasonData' = storeSeason(run.program, seasonData, loopYear, fetched)
                /\ outputFile' = FileOfSeasons(seasonData')
    /\ loopYear' = loopYear + 1
    /\ at' = "loop"
    /\ UNCHANGED <<run, writers, interrupt>>
    /\ UNCHANGED <<mergeVars, normVars>>

\* the for loop of either wikipedia program ends
FinishLoop ==
    /\ at = "loop"
    /\ run.program \in {"buildPromotionRelegation", "buildSeasonOverview"}
    /\ loopYear > run.endYear
    /\ at' = "done"
    /\ UNCHANGED <<run, loopYear, seasonData, outputFile, fetches, writers, interrupt>>
    /\ UNCHANGED <<mergeVars, normVars>>

\* SIGINT under wikipedia/cli.js: process.exit(0) while the loop awaits
Interrupt ==
    /\ at = "fetching"
    /\ run.program \in {"buildPromotionRelegation", "buildSeasonOverview"}
    /\ at' = "exited"
    /\ interrupt' = [raised |-> TRUE, finished |-> DOMAIN seasonData]
    /\ UNCHANGED <<run, loopYear, seasonData, outputFile, fetches, writers>>
    /\ UNCHANGED <<mergeVars, normVars>>

\* rsssf/cli.js after the await of the fetch: the season enters the aggregate
\* and persistAggregate is called
AggregateSeason ==
    /\ at = "fetching"
    /\ run.program = "scrape"
    /\ \E fetched \in Fetched :
        /\ fetches' = Append(fetches, [year |-> loopYear, ok |-> fetched.ok, tables |-> fetched.tables])
        /\ seasonData' = storeSeason(run.program, seasonData, loopYear, fetched)
    /\ at' = "persisting"
    /\ writers' = [writers EXCEPT !["loop"] = [phase |-> "mkdir", payload |-> EmptyMap]]
    /\ UNCHANGED <<run, loopYear, outputFile, interrupt>>
    /\ UNCHANGED <<mergeVars, normVars>>

\* the persistAggregate after the loop of rsssf/cli.js
FinalPersist ==
    /\ at = "loop"
    /\ run.program = "scrape"
    /\ loopYear > run.endYear
    /\ at' = "final"
    /\ writers' = [writers EXCEPT !["loop"] = [phase |-> "mkdir", payload |-> EmptyMap]]
    /\ UNCHANGED <<run, loopYear, seasonData, outputFile, fetches, interrupt>>
    /\ UNCHANGED <<mergeVars, normVars>>

processRuns == at \in {"loop", "fetching", "persisting", "final"} \/ (at = "done" /\ writers["handler"].phase # "idle")

\* the SIGINT handler of rsssf/cli.js: interrupted = true, persistAggregate()
Sigint ==
    /\ run.program = "scrape"
    /\ at \in {"loop", "fetching", "persisting", "final"}
    /\ ~interrupt.raised
    /\ interrupt' = [raised |-> TRUE, finished |-> DOMAIN seasonData]
    /\ writers' = [writers EXCEPT !["handler"] = [phase |-> "mkdir", payload |-> EmptyMap]]
    /\ UNCHANGED <<run, loopYear, at, seasonData, outputFile, fetches>>
    /\ UNCHANGED <<mergeVars, normVars>>

\* writeJsonToFile: mkdir resolved, JSON.stringify(data) is handed to fs.writeFile
Serialise ==
    /\ run.program = "scrape" /\ processRuns
    /\ \E w \in {"loop", "handler"} :
        /\ writers[w].phase = "mkdir"
        /\ writers' = [writers EXCEPT ![w] = [phase |-> "open", payload |-> seasonData]]
    /\ UNCHANGED <<run, loopYear, at, seasonData, outputFile, fetches, interrupt>>
    /\ UNCHANGED <<mergeVars, normVars>>

\* fs.writeFile opens the file with flag 'w': it is created or truncated
OpenFile ==
    /\ run.program = "scrape" /\ processRuns
    /\ \E w \in {"loop", "handler"} :
        /\ writers[w].phase = "open"
        /\ writers' = [writers EXCEPT ![w].phase = "write"]
    /\ outputFile' = [kind |-> "truncated", seasons |-> EmptyMap, size |-> 0]
    /\ UNCHANGED <<run, loopYear, at, seasonData, fetches, interrupt>>
    /\ UNCHANGED <<mergeVars, normVars>>

\* the text written from the start of the file over what the file holds
writtenOver(held, payload) ==
    IF held.size > Cardinality(DOMAIN payload) + 1
    THEN [kind |-> "mixed", seasons |-> payload, size |-> held.size]
    ELSE FileOfSeasons(payload)

WriteFile ==
    /\ run.program = "scrape" /\ processRuns
    /\ \E w \in {"loop", "handler"} :
        /\ writers[w].phase = "write"
        /\ writers' = [writers EXCEPT ![w].phase = "close"]
        /\ outputFile' = writtenOver(outputFile, writers[w].payload)
    /\ UNCHANGED <<run, loopYear, at, seasonData, fetches, interrupt>>
    /\ UNCHANGED <<mergeVars, normVars>>

\* the loop's persistAggregate resolves: the next source, or the end of the action
LoopSaved ==
    /\ run.program = "scrape"
    /\ at \in {"persisting", "final"}
    /\ writers["loop"].phase = "close"
    /\ writers' = [writers EXCEPT !["loop"] = NoWriter]
    /\ IF at = "persisting"
       THEN /\ at' = "loop"
            /\ loopYear' = loopYear + 1
       ELSE /\ at' = "done"
            /\ UNCHANGED loopYear
    /\ UNCHANGED <<run, seasonData, outputFile, fetches, interrupt>>
    /\ UNCHANGED <<mergeVars, normVars>>

\* the handler's persistAggregate resolves: process.exit(0)
HandlerSaved ==
    /\ run.program = "scrape" /\ processRuns
    /\ writers["handler"].phase = "close"
    /\ writers' = [writers EXCEPT !["handler"] = NoWriter]
    /\ at' = "exited"
    /\ UNCHANGED <<run, loopYear, seasonData, outputFile, fetches, interrupt>>
    /\ UNCHANGED <<mergeVars, normVars>>

NextScrape ==
    \/ StartSeason
    \/ StoreSeason
    \/ FinishLoop
    \/ Interrupt
    \/ AggregateSeason
    \/ FinalPersist
    \/ Sigint
    \/ Serialise
    \/ OpenFile
    \/ WriteFile
    \/ LoopSaved
    \/ HandlerSaved

SpecScrape == InitScrape /\ [][NextScrape]_vars
-----------------------------------------------------------------------------
(* rsssf/parse-page.js: the fixed-width tables of an RSSSF page.  A text is  *)
(* given as the sequence of its lines; blanks are the whitespace.           *)
(***************************************************************************)

STAT_COLUMN_COUNT == 13
MIN_STAT_COLUMN_COUNT == STAT_COLUMN_COUNT - 1

\* String.prototype.toUpperCase, on the letters a-z
toUpperCase(s) ==
    [i \in 1..Len(s) |->
        IF IndexIn(s[i], LowerCase) > 0 THEN UpperCase[IndexIn(s[i], LowerCase)] ELSE s[i]]

\* trimmed.split(/\s+/)
RECURSIVE splitTokens(_, _)
splitTokens(s, token) ==
    IF s = <<>> THEN (IF token = <<>> THEN <<>> ELSE <<token>>)
    ELSE IF Head(s) = " "
         THEN (IF token = <<>> THEN <<>> ELSE <<token>>) \o splitTokens(Tail(s), <<>>)
         ELSE splitTokens(Tail(s), Append(token, Head(s)))

split(s) == splitTokens(s, <<>>)

\* tokens.join(' ')
RECURSIVE join(_)
join(tokens) ==
    IF tokens = <<>> THEN <<>>
    ELSE IF Len(tokens) = 1 THEN Head(tokens)
    ELSE Head(tokens) \o <<" ">> \o join(Tail(tokens))

\* NUMERIC_TOKEN = /^-?\d+$/
isNumericToken(token) ==
    LET digits == IF token # <<>> /\ Head(token) = "-" THEN Tail(token) ELSE token IN
    /\ digits # <<>>
    /\ \A i \in 1..Len(digits) : IndexIn(digits[i], Digits) > 0

\* Number.parseInt(token, 10) of a numeric token
intOf(token) ==
    IF Head(token) = "-" THEN 0 - parseInt(Tail(token)).n ELSE parseInt(token).n

NoStatsStart == [found |-> FALSE, index |-> 0, length |-> 0]

\* a findStatsStart that knows the full layout only
OnlyFullRuns(tokens) ==
    LET starts == {i \in 0..(Len(tokens) - STAT_COLUMN_COUNT) :
                      \A j \in 1..STAT_COLUMN_COUNT : isNumericToken(tokens[i + j])}
    IN IF starts = {} THEN NoStatsStart
       ELSE [found |-> TRUE, index |-> CHOOSE i \in starts : \A j \in starts : i <= j,
             length |-> STAT_COLUMN_COUNT]

\* the first index (from 0) at which 13 tokens, or else 12, are all numeric
RECURSIVE findStatsStartFrom(_, _)
findStatsStartFrom(tokens, i) ==
    LET fits(length) ==
            /\ i <= Len(tokens) - length
            /\ \A j \in 1..length : isNumericToken(tokens[i + j])
    IN IF i >= Len(tokens) THEN NoStatsStart
       ELSE IF fits(STAT_COLUMN_COUNT) THEN [found |-> TRUE, index |-> i, length |-> STAT_COLUMN_COUNT]
       ELSE IF fits(MIN_STAT_COLUMN_COUNT) THEN [found |-> TRUE, index |-> i, length |-> MIN_STAT_COLUMN_COUNT]
       ELSE findStatsStartFrom(tokens, i + 1)

findStatsStart(tokens) == findStatsStartFrom(tokens, 0)

\* parseStats of 13 or 12 numeric tokens
parseStats(tokens) ==
    LET statsOf(values) ==
            LET full == Len(values) = STAT_COLUMN_COUNT
                home == [wins |-> values[2], draws |-> values[3], losses |-> values[4],
                         goalsFor |-> values[5], goalsAgainst |-> values[6]]
                away == [wins |-> values[7], draws |-> values[8], losses |-> values[9],
                         goalsFor |-> values[10], goalsAgainst |-> values[11]]
                overallWins == values[2] + values[7]
                overallDraws == values[3] + values[8]
                overallLosses == values[4] + values[9]
                overallGoalsFor == values[5] + values[10]
                overallGoalsAgainst == values[6] + values[11]
            IN [ played |-> values[1],
                 points |-> IF full THEN values[13] ELSE values[12],
                 goalDifference |-> IF full THEN values[12]
                                    ELSE values[5] + values[10] - (values[6] + values[11]),
                 home |-> home,
                 away |-> away,
                 overall |-> [played |-> overallWins + overallDraws + overallLosses,
                              wins |-> overallWins, draws |-> overallDraws,
                              losses |-> overallLosses,
                              goalsFor |-> overallGoalsFor, goalsAgainst |-> overallGoalsAgainst,
                              goalDifference |-> overallGoalsFor - overallGoalsAgainst] ]
    IN statsOf([i \in 1..Len(tokens) |-> intOf(tokens[i])])

\* positionToken.replace(/[^\d]/g, '')
digitsOnly(token) == SelectSeq(token, LAMBDA c : IndexIn(c, Digits) > 0)

NoRow == [ok |-> FALSE]

parseTableRow(line, estPositions, isFirstDivisionTable) ==
    LET rowOf(position, team, rowStats, trailingTokens) ==
            LET isPromotionRelegationCanidate == team = toUpperCase(team)
                isTopHalfLeague == position <= estPositions \div 2
            IN [ ok |-> TRUE,
                 pos |-> position,
                 team |-> team,
                 played |-> rowStats.played,
                 won |-> rowStats.overall.wins,
                 drawn |-> rowStats.overall.draws,
                 lost |-> rowStats.overall.losses,
                 goalsFor |-> rowStats.overall.goalsFor,
                 goalsAgainst |-> rowStats.overall.goalsAgainst,
                 goalDifference |-> rowStats.goalDifference,
                 points |-> rowStats.points,
                 notes |-> NullStr,
                 wasRelegated |-> isPromotionRelegationCanidate /\ ~isTopHalfLeague,
                 wasPromoted |-> ~isFirstDivisionTable /\ isPromotionRelegationCanidate
                                 /\ isTopHalfLeague,
                 isExpansionTeam |-> FALSE,
                 wasReElected |-> FALSE,
                 wasReprieved |-> FALSE,
                 homeRecord |-> rowStats.home,
                 awayRecord |-> rowStats.away,
                 markers |-> trailingTokens,
                 highlighted |-> isPromotionRelegationCanidate /\ Len(team) > 1 ]
        \* the row once the team and the position are known
        named(position, team, statTokens, trailingTokens) ==
            IF team = <<>> THEN NoRow
            ELSE IF position.k = "null" THEN NoRow
            ELSE rowOf(position.n, team, parseStats(statTokens), trailingTokens)
        \* the row once the statistics columns are located
        located(positionToken, restTokens, statStart) ==
            IF ~statStart.found THEN NoRow
            ELSE named(parseInt(digitsOnly(positionToken)),
                       join(SubSeq(restTokens, 1, statStart.index)),
                       SubSeq(restTokens, statStart.index + 1,
                              statStart.index + statStart.length),
                       SubSeq(restTokens, statStart.index + statStart.length + 1,
                              Len(restTokens)))
        tokenised(tokens) ==
            IF tokens = <<>> THEN NoRow
            ELSE IF Len(tokens) < MIN_STAT_COLUMN_COUNT + 1 THEN NoRow
            ELSE located(tokens[1], Tail(tokens), findStatsStart(Tail(tokens)))
    IN tokenised(split(line))

NoteSymbols == {"+", "*", "#", "@", "^"}

\* /^([+*#@^]+)/: the marker characters a note line starts with
RECURSIVE symbolPrefix(_)
symbolPrefix(s) ==
    IF s = <<>> \/ Head(s) \notin NoteSymbols THEN <<>>
    ELSE <<Head(s)>> \o symbolPrefix(Tail(s))

parseNoteLine(line) ==
    LET trimmed == trim(line)
        symbol == symbolPrefix(trimmed)
    IN IF symbol = <<>> THEN [symbol |-> <<"+">>, text |-> trimmed]
       ELSE [symbol |-> symbol, text |-> trim(SubSeq(trimmed, Len(symbol) + 1, Len(trimmed)))]

\* /^\s*\d+/
isTableDataLine(line) ==
    LET rest == dropLeadingBlanks(line) IN rest # <<>> /\ IndexIn(Head(rest), Digits) > 0

\* /\bP\s+W\s+D\s+L\s+F\s+A\s+W\s+D\s+L\s+F\s+A\b/i, on the tokens of the line
HeaderTokens == <<<<"p">>, <<"w">>, <<"d">>, <<"l">>, <<"f">>, <<"a">>, <<"w">>, <<"d">>, <<"l">>, <<"f">>, <<"a">>>>
isHeaderLine(line) ==
    LET tokens == split(line) IN
    \E i \in 0..(Len(tokens) - Len(HeaderTokens)) :
        \A j \in 1..Len(HeaderTokens) : toLowerCase(tokens[i + j]) = HeaderTokens[j]

\* toTitleCase of utils.js (imported by parse-page.js): every word with its first
\* letter in upper case and the others in lower case
RECURSIVE titleCased(_, _)
titleCased(s, atWordStart) ==
    IF s = <<>> THEN <<>>
    ELSE (IF atWordStart THEN toUpperCase(<<Head(s)>>) ELSE toLowerCase(<<Head(s)>>))
         \o titleCased(Tail(s), Head(s) = " ")

toTitleCase(s) == titleCased(s, TRUE)

\* the loop over the lines below the header: rows and notes collected until a
\* line that is neither ends it
RECURSIVE scanLines(_, _, _, _, _)
scanLines(lines, idx, isFirstDivisionTable, rows, notes) ==
    IF idx > Len(lines) THEN [rows |-> rows, notes |-> notes]
    ELSE LET trimmed == trim(lines[idx]) IN
         IF trimmed = <<>> THEN scanLines(lines, idx + 1, isFirstDivisionTable, rows, notes)
         ELSE IF startsWith(toLowerCase(trimmed), <<"<", "h", "r", ">">>) THEN [rows |-> rows, notes |-> notes]
         ELSE IF Head(trimmed) \in NoteSymbols
              THEN scanLines(lines, idx + 1, isFirstDivisionTable, rows,
                             Append(notes, parseNoteLine(trimmed)))
         ELSE IF ~isTableDataLine(trimmed) THEN [rows |-> rows, notes |-> notes]
         ELSE LET row == parseTableRow(lines[idx], Len(lines), isFirstDivisionTable) IN
              IF row.ok THEN scanLines(lines, idx + 1, isFirstDivisionTable, Append(rows, row), notes)
              ELSE [rows |-> rows, notes |-> notes]

\* noteLookup.get(symbol) || []
notesOf(notes, symbol) ==
    LET matching == SelectSeq(notes, LAMBDA note : note.symbol = symbol) IN
    [i \in 1..Len(matching) |-> matching[i].text]

\* noteSymbols.flatMap((symbol) => noteLookup.get(symbol) || [])
RECURSIVE attachedNotes(_, _)
attachedNotes(notes, markers) ==
    IF markers = <<>> THEN <<>>
    ELSE notesOf(notes, Head(markers)) \o attachedNotes(notes, Tail(markers))

\* NOTE_RE_PROMOTED
noteSaysPromoted(lowered) == includes(lowered, <<"p", "r", "o", "m", "o", "t">>)

\* NOTE_RE_RELEGATED
noteSaysRelegated(lowered) ==
    \/ includes(lowered, <<"r", "e", "l", "e", "g", "a", "t">>)
    \/ includes(lowered, <<"d", "e", "m", "o", "t", "e", "d", " ", "t", "o", " ", "t", "h", "e">>)
    \/ includes(lowered, <<"d", "r", "o", "p", "p", "e", "d", " ", "t", "o", " ", "t", "h", "e">>)
    \/ includes(lowered, <<"s", "e", "n", "t", " ", "d", "o", "w", "n", " ", "t", "o">>)

\* row.wasPromoted ?? wasPromoted: the flag parseTableRow set is a boolean,
\* never null or undefined, so the right-hand side is not taken
nullishCoalesce(structural, fromNotes) == structural

processedRow(row, notes) ==
    LET attached == attachedNotes(notes, row.markers)
        noteText == IF attached = <<>> THEN NullStr ELSE Str(join(attached))
        loweredNotes == toLowerCase(noteText.s)
    IN [row EXCEPT
          !.notes = noteText,
          !.wasPromoted = nullishCoalesce(row.wasPromoted, noteSaysPromoted(loweredNotes)),
          !.wasRelegated = nullishCoalesce(row.wasRelegated, noteSaysRelegated(loweredNotes)),
          !.wasReElected = includes(loweredNotes, <<"r", "e", "-", "e", "l", "e", "c", "t", "e", "d">>) \/ includes(loweredNotes, <<"r", "e", "e", "l", "e", "c", "t", "e", "d">>),
          !.wasReprieved =
              \E verb \in {<<"r", "e", "p", "r", "i", "e", "v", "d">>, <<"r", "e", "p", "r", "i", "e", "e", "d">>}, noun \in {<<"r", "e", "-", "e", "l", "e", "c", "t", "i", "o", "n">>, <<"r", "e", "e", "l", "e", "c", "t", "i", "o", "n">>} :
                  includes(loweredNotes, verb \o <<" ", "f", "r", "o", "m", " ">> \o noun),
          !.isExpansionTeam =
              \E word \in {<<"e", "x", "p", "a", "n", "s", "i", "o", "n">>, <<"n", "e", "w", " ", "c", "l", "u", "b">>, <<"a", "d", "m", "i", "t", "t", "e", "d">>, <<"j", "o", "i", "n", "e", "d", " ", "l", "e", "a", "g", "u", "e">>,
                           <<"f", "i", "r", "s", "t", " ", "t", "i", "m", "e", " ", "i", "n", " ", "t", "h", "e", " ", "l", "e", "a", "g", "u", "e">>} : includes(loweredNotes, word),
          !.team = toTitleCase(row.team)]

NoCompetition == [ok |-> FALSE]

\* parseCompetitionBlock(text, isFirstDivision), the text given as its lines
parseCompetitionBlock(lines, isFirstDivisionTable) ==
    LET content == {i \in 1..Len(lines) : trim(lines[i]) # <<>>} IN
    IF content = {} THEN NoCompetition
    ELSE
    LET firstContentIndex == CHOOSE i \in content : \A j \in content : i <= j
        headers == {i \in 1..Len(lines) : i > firstContentIndex /\ isHeaderLine(lines[i])}
    IN
    IF headers = {} THEN NoCompetition
    ELSE
    LET headerIndex == CHOOSE i \in headers : \A j \in headers : i <= j
        scanned == scanLines(lines, headerIndex + 1, isFirstDivisionTable, <<>>, <<>>)
    IN
    IF scanned.rows = <<>> THEN NoCompetition
    ELSE [ ok |-> TRUE,
           heading |-> trim(lines[firstContentIndex]),
           notes |-> scanned.notes,
           rows |-> [i \in 1..Len(scanned.rows) |-> processedRow(scanned.rows[i], scanned.notes)] ]
-----------------------------------------------------------------------------
(* The specification of the RSSSF parser: one call of parseTableRow or of    *)
(* parseCompetitionBlock per behaviour.                                     *)
(***************************************************************************)

\* the row of the section on fixed-width tables
ExampleRow == <<"1", " ", " ", "B", "L", "A", "C", "K", "B", "U", "R", "N", " ", "R", "O", "V", "E", "R", "S", " ", " ", "3", "0", " ", "1", "0", " ", "5", " ", "0", " ", "3", "0", " ", "1", "0", " ", "1", "0", " ", "5", " ", "0", " ", "3", "0", " ", "1", "0", " ", "5", "0">>

\* the stat columns of a row: 12 (no goal difference), 13, 11, 14, and 12 with
\* a word among them
StatColumns ==
    { <<"3", "0", " ", "1", "0", " ", "5", " ", "0", " ", "3", "0", " ", "1", "0", " ", "1", "0", " ", "5", " ", "0", " ", "3", "0", " ", "1", "0", " ", "5", "0">>,
      <<"3", "0", " ", "1", "0", " ", "5", " ", "0", " ", "3", "0", " ", "1", "0", " ", "1", "0", " ", "5", " ", "0", " ", "3", "0", " ", "1", "0", " ", "4", "0", " ", "5", "0">>,
      <<"3", "0", " ", "1", "0", " ", "5", " ", "0", " ", "3", "0", " ", "1", "0", " ", "1", "0", " ", "5", " ", "0", " ", "3", "0", " ", "5", "0">>,
      <<"3", "0", " ", "1", "0", " ", "5", " ", "0", " ", "3", "0", " ", "1", "0", " ", "1", "0", " ", "5", " ", "0", " ", "3", "0", " ", "1", "0", " ", "4", "0", " ", "5", "0", " ", "7">>,
      <<"3", "0", " ", "1", "0", " ", "5", " ", "0", " ", "3", "0", " ", "1", "0", " ", "n", "/", "a", " ", "5", " ", "0", " ", "3", "0", " ", "1", "0", " ", "-", "4", " ", "5", "0">> }

PositionTokens == {<<"1">>, <<"1", "2">>, <<"3", ".">>, <<"x">>}
TeamNames == {<<"B", "L", "A", "C", "K", "B", "U", "R", "N", " ", "R", "O", "V", "E", "R", "S">>, <<"E", "v", "e", "r", "t", "o", "n">>, <<>>, <<"S", "c", "h", "a", "l", "k", "e", " ", "0", "4">>}
TrailingMarkers == {<<>>, <<"*">>}

RowLine(position, team, columns, markers) ==
    position \o <<" ", " ">> \o team \o <<" ", " ">> \o columns \o <<" ">> \o markers

RowLines ==
    {ExampleRow}
    \cup { RowLine(position, team, columns, markers) :
             position \in PositionTokens, team \in TeamNames,
             columns \in StatColumns, markers \in TrailingMarkers }

\* the lines of a <pre> block: heading, column header, table rows (the last of
\* DataLines has 11 numeric columns only), footnotes
HeadingLine == <<"D", "i", "v", "i", "s", "i", "o", "n", " ", "2", " ", "-", " ", "1", "9", "2", "0", "/", "2", "1">>
ColumnHeaderLine == <<" ", " ", " ", "P", " ", " ", "W", " ", "D", " ", "L", " ", "F", " ", "A", " ", " ", "W", " ", "D", " ", "L", " ", "F", " ", "A", " ", " ", "P", "t", "s">>
DataLines ==
    { <<"1", " ", "L", "e", "e", "d", "s", " ", "3", "0", " ", "1", "0", " ", "5", " ", "0", " ", "3", "0", " ", "1", "0", " ", "1", "0", " ", "5", " ", "0", " ", "3", "0", " ", "1", "0", " ", "5", "0", " ", "*">>,
      <<"2", " ", "B", "U", "R", "Y", " ", "3", "0", " ", "1", "0", " ", "5", " ", "0", " ", "3", "0", " ", "1", "0", " ", "1", "0", " ", "5", " ", "0", " ", "3", "0", " ", "1", "0", " ", "4", "8">>,
      <<"9", " ", "H", "u", "l", "l", " ", "3", "0", " ", "1", " ", "5", " ", "9", " ", "1", "0", " ", "3", "0", " ", "1", " ", "5", " ", "9", " ", "1", "0", " ", "3", "0", " ", "1", "4", " ", "+">>,
      <<"8", " ", "S", "T", "O", "K", "E", " ", "3", "0", " ", "1", " ", "5", " ", "9", " ", "1", "0", " ", "3", "0", " ", "1", " ", "5", " ", "9", " ", "1", "0", " ", "3", "0", " ", "1", "4">>,
      <<"3", " ", "D", "e", "r", "b", "y", " ", "3", "0", " ", "1", "0", " ", "5", " ", "0", " ", "3", "0", " ", "1", "0", " ", "1", "0", " ", "5", " ", "0", " ", "3", "0", " ", "5", "0">> }
FootnoteLines ==
    { <<>>,
      <<<<"*", " ", "P", "r", "o", "m", "o", "t", "e", "d">>>>,
      <<<<"*", " ", "P", "r", "o", "m", "o", "t", "e", "d">>, <<"+", " ", "R", "e", "l", "e", "g", "a", "t", "e", "d">>>>,
      <<<<"+", " ", "D", "r", "o", "p", "p", "e", "d", " ", "t", "o", " ", "t", "h", "e", " ", "T", "h", "i", "r", "d", " ", "D", "i", "v", "i", "s", "i", "o", "n">>>> }

Blocks ==
    { <<HeadingLine, ColumnHeaderLine>> \o rows \o footnotes :
        rows \in UNION {[1..n -> DataLines] : n \in 0..MaxRows}, footnotes \in FootnoteLines }

InitRsssf ==
    /\ pc = "idle"
    /\ inputs = <<>>
    /\ includeEmpty = FALSE
    /\ combinedDataset = EmptyMap
    /\ finalDataset = EmptyMap
    /\ stats = NoStats
    /\ call = [op |-> "none"]
    /\ result = [raised |-> FALSE]
    /\ NoSeasonLoop

ParseRow ==
    /\ call.op = "none"
    /\ \E line \in RowLines, estPositions \in {4, 30}, isFirstDivisionTable \in BOOLEAN :
        /\ call' = [op |-> "parseTableRow", line |-> line, estPositions |-> estPositions,
                    isFirstDivision |-> isFirstDivisionTable]
        /\ result' = [raised |-> FALSE,
                      row |-> parseTableRow(line, estPositions, isFirstDivisionTable)]
    /\ UNCHANGED <<mergeVars, scrapeVars>>

ParseBlock ==
    /\ call.op = "none"
    /\ \E lines \in Blocks, isFirstDivisionTable \in BOOLEAN :
        /\ call' = [op |-> "parseCompetitionBlock", lines |-> lines,
                    isFirstDivision |-> isFirstDivisionTable]
        /\ result' = [raised |-> FALSE,
                      competition |-> parseCompetitionBlock(lines, isFirstDivisionTable)]
    /\ UNCHANGED <<mergeVars, scrapeVars>>

NextRsssf == ParseRow \/ ParseBlock

SpecRsssf == InitRsssf /\ [][NextRsssf]_vars
-----------------------------------------------------------------------------
(* Claims about combineFootballDataFiles, checked under Spec *)

Loaded(i) == loadFootballData(inputs[i])
HasBlock(dataset, seasonKey, key) ==
    seasonKey \in DOMAIN dataset /\ key \in DOMAIN dataset[seasonKey]
Rows(block) == {block.table[i] : i \in 1..Len(block.table)}
InWarSpan(seasonKey) ==
    /\ parseInt(seasonKey).k = "num"
    /\ parseInt(seasonKey).n \in (1915..1918) \cup (1940..1945)
\* a block carries table rows, promoted/relegated entries or seasonMetadata
CarriesContent(block) ==
    \/ Len(block.table) > 0
    \/ Len(block.promoted.l) > 0
    \/ Len(block.relegated.l) > 0
    \/ block.extra.seasonMetadata.size > 0
SuppliesData(i, seasonKey, key) ==
    HasBlock(Loaded(i), seasonKey, key) /\ CarriesContent(Loaded(i)[seasonKey][key])
AllSeasonKeys == UNION {DOMAIN inputs[i] : i \in 1..Len(inputs)}
AllBlockKeys ==
    UNION {UNION {DOMAIN inputs[i][seasonKey] : seasonKey \in DOMAIN inputs[i]} : i \in 1..Len(inputs)}

\* C1: in the dataset combineFootballDataFiles returns, every row of every block
\* (TierData object or bare array) has goalDifference = goalsFor - goalsAgainst.
C1_GoalDifferenceInvariant ==
    pc = "done" =>
        \A seasonKey \in DOMAIN finalDataset : \A key \in DOMAIN finalDataset[seasonKey] :
            \A row \in Rows(finalDataset[seasonKey][key]) :
                row.goalDifference = Num(row.goalsFor.n - row.goalsAgainst.n)

\* a bare array whose input row recorded 9 for 4 - 1 and an object whose row recorded null
C1_Witness ==
    /\ pc = "done"
    /\ \E i \in 1..Len(inputs) : inputs[i] = FileOf({<<"2", "0", "0", "0">>}, <<"t", "i", "e", "r", "1">>, ArrayA)
    /\ \E i \in 1..Len(inputs) : inputs[i] = FileOf({<<"2", "0", "0", "0">>}, <<"s", "e", "a", "s", "o", "n", "I", "n", "f", "o">>, TierB)
    /\ HasBlock(finalDataset, <<"2", "0", "0", "0">>, <<"t", "i", "e", "r", "1">>)
    /\ finalDataset[<<"2", "0", "0", "0">>][<<"t", "i", "e", "r", "1">>].kind = "array"
    /\ finalDataset[<<"2", "0", "0", "0">>][<<"t", "i", "e", "r", "1">>].table[1].goalDifference = Num(3)
    /\ HasBlock(finalDataset, <<"2", "0", "0", "0">>, <<"s", "e", "a", "s", "o", "n", "I", "n", "f", "o">>)
    /\ finalDataset[<<"2", "0", "0", "0">>][<<"s", "e", "a", "s", "o", "n", "I", "n", "f", "o">>].table[1].goalDifference = Num(2)

\* C2: the returned dataset has no season whose numeric key is in 1915..1918 or
\* 1940..1945, whatever includeEmpty is and whatever data the season carries.
C2_NoWarSeason ==
    pc = "done" => \A seasonKey \in DOMAIN finalDataset : ~InWarSpan(seasonKey)

\* with includeEmpty: 1918 and 1945 carried rows and are gone, 1919 and 1946 are kept
C2_Witness ==
    /\ pc = "done"
    /\ includeEmpty
    /\ HasBlock(combinedDataset, <<"1", "9", "1", "8">>, <<"t", "i", "e", "r", "1">>)
    /\ Len(combinedDataset[<<"1", "9", "1", "8">>][<<"t", "i", "e", "r", "1">>].table) > 0
    /\ HasBlock(combinedDataset, <<"1", "9", "4", "5">>, <<"t", "i", "e", "r", "1">>)
    /\ DOMAIN finalDataset \cap {<<"1", "9", "1", "5">>, <<"1", "9", "1", "8">>, <<"1", "9", "4", "0">>, <<"1", "9", "4", "5">>} = {}
    /\ {<<"1", "9", "1", "4">>, <<"1", "9", "1", "9">>, <<"1", "9", "3", "9">>, <<"1", "9", "4", "6">>} \subseteq DOMAIN finalDataset

\* C3: when more than one input supplies a season's tier with data, the returned
\* dataset holds (goal differences repaired) the tier of the first of them.
C3_FirstWithDataWins ==
    pc = "done" =>
        \A seasonKey \in DOMAIN finalDataset : \A key \in DOMAIN finalDataset[seasonKey] :
            LET suppliers == {i \in 1..Len(inputs) : SuppliesData(i, seasonKey, key)} IN
            (isTierKey(key) /\ Cardinality(suppliers) > 1) =>
                LET first == CHOOSE i \in suppliers : \A j \in suppliers : i <= j IN
                finalDataset[seasonKey][key] = repairTable(Loaded(first)[seasonKey][key])

\* C4, one turn of the loop: a held tier without data is replaced by the tier with
\* data of the input merged in that turn.
C4_Step ==
    (pc = "loading" /\ pc' = "loading" /\ Len(inputs') = Len(inputs) + 1) =>
        LET incoming == loadFootballData(inputs'[Len(inputs')]) IN
        \A seasonKey \in DOMAIN combinedDataset \cap DOMAIN incoming :
            \A key \in DOMAIN combinedDataset[seasonKey] \cap DOMAIN incoming[seasonKey] :
                (/\ isTierKey(key)
                 /\ ~CarriesContent(combinedDataset[seasonKey][key])
                 /\ CarriesContent(incoming[seasonKey][key]))
                => combinedDataset'[seasonKey][key] = incoming[seasonKey][key]

\* C4, the result for two inputs: the first supplies the tier without data, the second
\* with data, and the returned dataset holds the second input's tier.
C4_Result ==
    (pc = "done" /\ Len(inputs) = 2) =>
        \A seasonKey \in DOMAIN Loaded(1) \cap DOMAIN Loaded(2) :
            \A key \in DOMAIN Loaded(1)[seasonKey] \cap DOMAIN Loaded(2)[seasonKey] :
                (/\ isTierKey(key)
                 /\ ~InWarSpan(seasonKey)
                 /\ ~CarriesContent(Loaded(1)[seasonKey][key])
                 /\ CarriesContent(Loaded(2)[seasonKey][key]))
                => /\ HasBlock(finalDataset, seasonKey, key)
                   /\ finalDataset[seasonKey][key] = repairTable(Loaded(2)[seasonKey][key])

\* C4: a tier held without data (empty table, no promoted/relegated entries, no
\* seasonMetadata) is replaced by the same season's tier of a later input that has data.
C4_EmptyIncumbentReplaced == [][C4_Step]_vars /\ [](C4_Result)

C4_Witness ==
    /\ pc = "done"
    /\ inputs = <<FileOf({<<"2", "0", "0", "0">>}, <<"t", "i", "e", "r", "1">>, EmptyTier), FileOf({<<"2", "0", "0", "0">>}, <<"t", "i", "e", "r", "1">>, TierB)>>
    /\ finalDataset[<<"2", "0", "0", "0">>][<<"t", "i", "e", "r", "1">>].table[1].team = Str(<<"B">>)

\* C5: a tier that some input supplies with data has data in the returned dataset,
\* for every season outside the war spans, whatever includeEmpty is.
C5_DataIsKept ==
    pc = "done" =>
        \A seasonKey \in AllSeasonKeys : \A key \in AllBlockKeys :
            (/\ isTierKey(key)
             /\ ~InWarSpan(seasonKey)
             /\ \E i \in 1..Len(inputs) : SuppliesData(i, seasonKey, key))
            => /\ HasBlock(finalDataset, seasonKey, key)
               /\ CarriesContent(finalDataset[seasonKey][key])

\* C6 as stated: merging [D, D] returns D (D as loadFootballData reads it).
C6_SelfMergeIsIdentity ==
    (pc = "done" /\ Len(inputs) = 2 /\ inputs[1] = inputs[2]) => finalDataset = Loaded(1)

\* C6 amended: merging [D, D] returns D when D is a merged dataset, that is when
\* merging [D] alone returns D; every dataset the merge returns is one.
C6_SelfMergeOfMerged ==
    /\ (pc = "done" /\ Len(inputs) = 2 /\ inputs[1] = inputs[2]
            /\ combineFootballDataFiles(<<inputs[1]>>, includeEmpty) = inputs[1])
        => finalDataset = inputs[1]
    /\ pc = "done" =>
        combineFootballDataFiles(<<finalDataset, finalDataset>>, includeEmpty) = finalDataset

C6_Witness ==
    /\ pc = "done"
    /\ inputs = <<MergedFile, MergedFile>>
    /\ finalDataset = MergedFile
    /\ Len(finalDataset[<<"2", "0", "0", "0">>][<<"t", "i", "e", "r", "1">>].table) = 1

\* C10: without includeEmpty no season of the returned dataset is empty (no block with
\* table rows, promoted/relegated entries or seasonMetadata); with includeEmpty every
\* empty season outside the war spans is kept.
C10_EmptySeasons ==
    pc = "done" =>
        /\ ~includeEmpty =>
            \A seasonKey \in DOMAIN finalDataset :
                \E key \in DOMAIN finalDataset[seasonKey] :
                    CarriesContent(finalDataset[seasonKey][key])
        /\ includeEmpty =>
            \A seasonKey \in DOMAIN combinedDataset :
                (/\ ~InWarSpan(seasonKey)
                 /\ \A key \in DOMAIN combinedDataset[seasonKey] :
                        ~CarriesContent(combinedDataset[seasonKey][key]))
                => /\ seasonKey \in DOMAIN finalDataset
                   /\ \A key \in DOMAIN finalDataset[seasonKey] :
                        ~CarriesContent(finalDataset[seasonKey][key])

\* without includeEmpty: season 2000 was seen with two empty blocks and is left out
C10_Witness ==
    /\ pc = "done"
    /\ ~includeEmpty
    /\ HasBlock(combinedDataset, <<"2", "0", "0", "0">>, <<"t", "i", "e", "r", "1">>)
    /\ HasBlock(combinedDataset, <<"2", "0", "0", "0">>, <<"s", "e", "a", "s", "o", "n", "I", "n", "f", "o">>)
    /\ ~seasonHasData(combinedDataset[<<"2", "0", "0", "0">>])
    /\ <<"2", "0", "0", "0">> \notin DOMAIN finalDataset


\* the season keys the report counts as excluded: seen, outside the war spans, not returned
ExcludedSeasonKeys == {seasonKey \in AllSeasonKeys : ~InWarSpan(seasonKey)} \ DOMAIN finalDataset
TimesListed(listing, value) == IF value \in DOMAIN listing THEN listing[value] ELSE 0

\* C11: mergedSeasonCount + excludedCount + removedWarSeasons is the number of
\* distinct season keys of the inputs, and every excluded key is listed once: its
\* parsed year in missingSeasonNumbers (as often as excluded keys have that year),
\* or the key itself in nonNumericMissing when it has no numeric prefix.
C11_ReportPartitionsSeasons ==
    pc = "done" =>
        /\ stats.mergedSeasonCount + stats.excludedCount + stats.removedWarSeasons
             = Cardinality(AllSeasonKeys)
        /\ stats.mergedSeasonCount = Cardinality(DOMAIN finalDataset)
        /\ stats.excludedCount = Cardinality(ExcludedSeasonKeys)
        /\ \A seasonKey \in ExcludedSeasonKeys :
              IF parseInt(seasonKey).k = "num"
              THEN /\ TimesListed(stats.missingSeasonNumbers, parseInt(seasonKey).n)
                        = Cardinality({other \in ExcludedSeasonKeys :
                                          parseInt(other) = parseInt(seasonKey)})
                   /\ TimesListed(stats.nonNumericMissing, seasonKey) = 0
              ELSE TimesListed(stats.nonNumericMissing, seasonKey) = 1
        /\ \A year \in DOMAIN stats.missingSeasonNumbers :
              \E seasonKey \in ExcludedSeasonKeys : parseInt(seasonKey) = Num(year)
        /\ DOMAIN stats.nonNumericMissing \subseteq ExcludedSeasonKeys

\* without includeEmpty: 2000 kept, 1916 removed as a war season, 1950, 1950b and xyz
\* excluded, 1950 listed twice and xyz once
C11_Witness ==
    /\ pc = "done"
    /\ ~includeEmpty
    /\ stats.mergedSeasonCount = 1
    /\ stats.removedWarSeasons = 1
    /\ stats.excludedCount = 3
    /\ TimesListed(stats.missingSeasonNumbers, 1950) = 2
    /\ TimesListed(stats.nonNumericMissing, <<"x", "y", "z">>) = 1

\* the inputs merged so far, as loadFootballData reads them: all but one that
\* failed to load
LoadedInputs ==
    [i \in (IF pc = "failed" THEN 1..(Len(inputs) - 1) ELSE 1..Len(inputs)) |-> Loaded(i)]
Holders(loaded, seasonKey, key) == {i \in DOMAIN loaded : HasBlock(loaded[i], seasonKey, key)}
FirstHolder(loaded, seasonKey, key) ==
    CHOOSE i \in Holders(loaded, seasonKey, key) : \A j \in Holders(loaded, seasonKey, key) : i <= j

\* C25: every field of a season record whose key does not start with "tier"
\* has, in the record merged so far, the value of the first input that has
\* the field: a later input fills it only where it is absent and never
\* changes it; the returned dataset holds that value, goal differences
\* repaired.
C25_NonTierFieldsOfFirstInput ==
    LET loaded == LoadedInputs IN
    /\ \A seasonKey \in DOMAIN combinedDataset : \A key \in DOMAIN combinedDataset[seasonKey] :
          ~isTierKey(key) =>
              /\ Holders(loaded, seasonKey, key) # {}
              /\ combinedDataset[seasonKey][key]
                    = loaded[FirstHolder(loaded, seasonKey, key)][seasonKey][key]
    /\ pc = "done" =>
          \A seasonKey \in DOMAIN finalDataset : \A key \in DOMAIN finalDataset[seasonKey] :
              ~isTierKey(key) =>
                  finalDataset[seasonKey][key]
                      = repairTable(loaded[FirstHolder(loaded, seasonKey, key)][seasonKey][key])

\* seasonInfo without data from the first input, with a row from the second:
\* the returned seasonInfo is the first one
C25_Witness ==
    /\ pc = "done"
    /\ includeEmpty
    /\ inputs = <<FileOf({<<"2", "0", "0", "0">>}, <<"s", "e", "a", "s", "o", "n", "I", "n", "f", "o">>, EmptyTier), FileOf({<<"2", "0", "0", "0">>}, <<"s", "e", "a", "s", "o", "n", "I", "n", "f", "o">>, TierB)>>
    /\ HasBlock(finalDataset, <<"2", "0", "0", "0">>, <<"s", "e", "a", "s", "o", "n", "I", "n", "f", "o">>)
    /\ finalDataset[<<"2", "0", "0", "0">>][<<"s", "e", "a", "s", "o", "n", "I", "n", "f", "o">>].table = <<>>

\* C26: every tier of the returned dataset is, goal differences repaired, the
\* whole tier (rows, promoted and relegated lists, metadata) that one input
\* has under that key of that season, and so is every tier of the record
\* merged so far: nothing is put together from the tiers of two inputs, while
\* the tiers under two keys of a season may be those of two inputs.
C26_WholeTiersOnly ==
    LET loaded == LoadedInputs IN
    /\ \A seasonKey \in DOMAIN combinedDataset : \A key \in DOMAIN combinedDataset[seasonKey] :
          isTierKey(key) =>
              \E i \in Holders(loaded, seasonKey, key) :
                  combinedDataset[seasonKey][key] = loaded[i][seasonKey][key]
    /\ pc = "done" =>
          \A seasonKey \in DOMAIN finalDataset : \A key \in DOMAIN finalDataset[seasonKey] :
              isTierKey(key) =>
                  \E i \in Holders(loaded, seasonKey, key) :
                      finalDataset[seasonKey][key] = repairTable(loaded[i][seasonKey][key])

\* tier1 of the first input and tier2 of the second in one season; and a tier
\* with rows kept whole when a later input has a promoted list for it
C26_Witness ==
    /\ pc = "done"
    /\ inputs = <<FileOf({<<"2", "0", "0", "0">>}, <<"t", "i", "e", "r", "1">>, TierA), FileOf({<<"2", "0", "0", "0">>}, <<"t", "i", "e", "r", "2">>, TierB),
                  FileOf({<<"2", "0", "0", "0">>}, <<"t", "i", "e", "r", "1">>, ListOnlyTier)>>
    /\ finalDataset[<<"2", "0", "0", "0">>][<<"t", "i", "e", "r", "1">>].table[1].team = Str(<<"A">>)
    /\ finalDataset[<<"2", "0", "0", "0">>][<<"t", "i", "e", "r", "1">>].promoted = List(<<>>)
    /\ finalDataset[<<"2", "0", "0", "0">>][<<"t", "i", "e", "r", "2">>].table[1].team = Str(<<"B">>)

\* what the report says about the seasons kept and left out
SeasonReport(report) ==
    [ mergedSeasonCount |-> report.mergedSeasonCount,
      excludedCount |-> report.excludedCount,
      removedWarSeasons |-> report.removedWarSeasons,
      missingSeasonNumbers |-> report.missingSeasonNumbers,
      nonNumericMissing |-> report.nonNumericMissing ]

\* C28: combineFootballDataFiles with the inputs [D, D] returns the dataset it
\* returns for [D] alone, with the same seasons kept, excluded and removed as
\* war seasons, with and without includeEmpty.
C28_RepeatedInput ==
    (pc = "done" /\ Len(inputs) = 2 /\ inputs[1] = inputs[2]) =>
        LET single == <<inputs[1]>>
            merged == mergeAll(EmptyMap, single, includeEmpty)
        IN /\ finalDataset = combineFootballDataFiles(single, includeEmpty)
           /\ DOMAIN combinedDataset = DOMAIN merged
           /\ filteredSeasonKeys(combinedDataset, includeEmpty)
                = filteredSeasonKeys(merged, includeEmpty)
           /\ SeasonReport(stats) = SeasonReport(mergeStats(merged, single, includeEmpty))

\* the file with a season at every end of the war spans, read twice: the war
\* seasons are removed, the others kept with one row each
C28_Witness ==
    /\ pc = "done"
    /\ inputs = <<FileOf(BoundaryKeys, <<"t", "i", "e", "r", "1">>, TierA), FileOf(BoundaryKeys, <<"t", "i", "e", "r", "1">>, TierA)>>
    /\ stats.removedWarSeasons = 3
    /\ stats.mergedSeasonCount = 5
    /\ Len(finalDataset[<<"1", "9", "4", "6">>][<<"t", "i", "e", "r", "1">>].table) = 1
-----------------------------------------------------------------------------
(* Claims about generate-output-files.js, checked under SpecNorm *)

\* the tiers the call of this behaviour built or normalised, each with the
\* promoted and relegated values its caller supplied
TierCases ==
    IF call.op = "none" \/ result.raised THEN {}
    ELSE IF call.op = "buildTierData"
    THEN {[promoted |-> call.options.promoted, relegated |-> call.options.relegated,
           tier |-> result.tier]}
    ELSE IF call.op = "createFootballData" /\ call.initial[<<"1", "9", "0", "1">>][<<"t", "i", "e", "r", "1">>].kind = "object"
    THEN {[promoted |-> call.initial[<<"1", "9", "0", "1">>][<<"t", "i", "e", "r", "1">>].promoted,
           relegated |-> call.initial[<<"1", "9", "0", "1">>][<<"t", "i", "e", "r", "1">>].relegated,
           tier |-> result.dataset[<<"1", "9", "0", "1">>][<<"t", "i", "e", "r", "1">>]]}
    ELSE IF call.op = "setSeasonRecord" /\ call.seasonValue[<<"t", "i", "e", "r", "2">>].kind = "object"
    THEN {[promoted |-> call.seasonValue[<<"t", "i", "e", "r", "2">>].promoted,
           relegated |-> call.seasonValue[<<"t", "i", "e", "r", "2">>].relegated,
           tier |-> result.dataset[<<"2", "0", "0", "0">>][<<"t", "i", "e", "r", "2">>]]}
    ELSE {}

Names(list) == {list.l[i] : i \in 1..Len(list.l)}
SuppliedNames(list) == {toStringValue(list.l[i]) : i \in 1..Len(list.l)} \ {NullStr}
FlaggedTeams(tier, flag) ==
    {tier.table[i].team : i \in {j \in 1..Len(tier.table) : tier.table[j][flag].b}}
NoDuplicates(list) == Cardinality(Names(list)) = Len(list.l)

C9_BooleanFlagsKept ==
    (call.op = "normaliseLeagueTableEntry" /\ ~result.raised) =>
        \A key \in BOOLEAN_FIELDS :
            result.row[key] = IF call.raw[key].k = "bool" THEN call.raw[key]
                              ELSE Bool(derivedFlag(key, toStringValue(call.raw.notes)))

\* a row with relegation notes, wasRelegated: false, a wasPromoted that is not a
\* boolean and no wasReElected
C9_Witness ==
    /\ call.op = "normaliseLeagueTableEntry"
    /\ ~result.raised
    /\ call.raw.notes = Str(<<"R", "e", "l", "e", "g", "a", "t", "e", "d", " ", "t", "o", " ", "t", "h", "e", " ", "S", "e", "c", "o", "n", "d", " ", "D", "i", "v", "i", "s", "i", "o", "n">>)
    /\ call.raw.wasRelegated = Bool(FALSE)
    /\ call.raw.wasPromoted = Other(TRUE)
    /\ call.raw.wasReElected = Absent
    /\ result.row.wasRelegated = Bool(FALSE)
    /\ result.row.wasPromoted = Bool(FALSE)
    /\ result.row.wasReElected = Bool(FALSE)

\* the dataset a call of createFootballData or setSeasonRecord returned
ReturnedDataset == call.op \in {"createFootballData", "setSeasonRecord"} /\ ~result.raised

\* C29: normalisation is idempotent.  createFootballData applied to a dataset
\* that is already normalised raises nothing and returns an equal dataset
\* (rows, flags, promoted and relegated lists, metadata fields), and so does
\* loading the file the dataset was saved to; the same holds of a normalised
\* row under normaliseLeagueTableEntry and of a built tier under
\* normaliseTierData.
C29_NormalisationIsIdempotent ==
    /\ ReturnedDataset =>
          /\ ~createFootballDataRaises(result.dataset)
          /\ createFootballData(result.dataset) = result.dataset
          /\ ~createFootballDataRaises(saveFootballData(result.dataset))
          /\ loadFootballData(saveFootballData(result.dataset)) = result.dataset
    /\ (call.op = "normaliseLeagueTableEntry" /\ ~result.raised) =>
          /\ ~normaliseLeagueTableEntryRaises(result.row)
          /\ normaliseLeagueTableEntry(result.row) = result.row
    /\ (call.op = "buildTierData" /\ ~result.raised) =>
          /\ ~normaliseRowsRaises(result.tier.table)
          /\ normaliseTierData(result.tier, call.season) = result.tier

\* a file whose tier has two rows, one promoted by its notes, no promoted list
\* and a relegated list with a repeated name: the dataset made of it has the
\* derived promoted list and the relegated list without the repeat
C29_Witness ==
    /\ call.op = "createFootballData"
    /\ ~result.raised
    /\ call.initial[<<"1", "9", "0", "1">>][<<"t", "i", "e", "r", "1">>].kind = "object"
    /\ ~call.initial[<<"1", "9", "0", "1">>][<<"t", "i", "e", "r", "1">>].promoted.has
    /\ call.initial[<<"1", "9", "0", "1">>][<<"t", "i", "e", "r", "1">>].relegated = List(<<Str(<<"L", "e", "e", "d", "s">>), Str(<<"L", "e", "e", "d", "s">>)>>)
    /\ Len(result.dataset[<<"1", "9", "0", "1">>][<<"t", "i", "e", "r", "1">>].table) = 2
    /\ result.dataset[<<"1", "9", "0", "1">>][<<"t", "i", "e", "r", "1">>].table[1].wasPromoted = Bool(TRUE)
    /\ result.dataset[<<"1", "9", "0", "1">>][<<"t", "i", "e", "r", "1">>].promoted = List(<<Str(<<"E", "v", "e", "r", "t", "o", "n">>)>>)
    /\ result.dataset[<<"1", "9", "0", "1">>][<<"t", "i", "e", "r", "1">>].relegated = List(<<Str(<<"L", "e", "e", "d", "s">>)>>)
    /\ call.initial # result.dataset
    /\ loadFootballData(saveFootballData(result.dataset)) = result.dataset

\* the seasons map the call of upsertSeasonTier found
FoundSeasons == call.dataset.seasons

\* C30 as stated: upsertSeasonTier is all-or-nothing.  When it raises, the
\* dataset is as it was, no season key added and no tier changed; when it
\* returns, only the addressed tier of the addressed season has changed.
C30_UpsertIsAllOrNothing ==
    call.op = "upsertSeasonTier" =>
        IF result.raised
        THEN result.dataset = FoundSeasons
        ELSE /\ DOMAIN result.dataset = DOMAIN FoundSeasons \cup {call.seasonKey}
             /\ \A seasonKey \in DOMAIN FoundSeasons \ {call.seasonKey} :
                   result.dataset[seasonKey] = FoundSeasons[seasonKey]
             /\ call.seasonKey \in DOMAIN FoundSeasons =>
                   /\ DOMAIN result.dataset[call.seasonKey]
                         = DOMAIN FoundSeasons[call.seasonKey] \cup {call.tierKey}
                   /\ \A tierKey \in DOMAIN FoundSeasons[call.seasonKey] \ {call.tierKey} :
                         result.dataset[call.seasonKey][tierKey]
                            = FoundSeasons[call.seasonKey][tierKey]
-----------------------------------------------------------------------------
(* Claims about the table parsers, checked under SpecParse *)

\* the tables the call of this behaviour parsed as top flight, with their rows
TopFlightRows ==
    IF call.op = "parseDivisionTable" /\ call.division = <<"f", "i", "r", "s", "t">>
    THEN {result.rows[i] : i \in 1..Len(result.rows)}
    ELSE IF call.op = "parseOverviewLeagueTables"
    THEN UNION { {result.overview[e].rows[i] : i \in 1..Len(result.overview[e].rows)} :
                   e \in {d \in 1..Len(result.overview) :
                            \/ includes(toLowerCase(result.overview[d].title), <<"p", "r", "e", "m", "i", "e", "r", " ", "l", "e", "a", "g", "u", "e">>)
                            \/ includes(toLowerCase(result.overview[d].title),
                                        <<"f", "o", "o", "t", "b", "a", "l", "l", " ", "l", "e", "a", "g", "u", "e", " ", "p", "r", "e", "m", "i", "e", "r", " ", "d", "i", "v", "i", "s", "i", "o", "n">>)
                            \/ /\ includes(toLowerCase(result.overview[d].title), <<"f", "i", "r", "s", "t", " ", "d", "i", "v", "i", "s", "i", "o", "n">>)
                               /\ \A t \in 1..Len(call.page) :
                                     ~includes(toLowerCase(call.page[t].title), <<"p", "r", "e", "m", "i", "e", "r", " ", "l", "e", "a", "g", "u", "e">>)} }
    ELSE {}

\* C12: every row parsed from a top-flight table has wasPromoted = false, whatever
\* its notes and the legend symbols of its team cell, in parseDivisionTable(html,
\* 'first') and in parseOverviewLeagueTables.
C12_TopFlightNeverPromoted ==
    \A row \in TopFlightRows : row.wasPromoted = Bool(FALSE)

\* the rows of the page that have a position and a team: the rows the parser returns
ReturnedRows == SelectSeq(call.table.rows, LAMBDA raw : ~raw.team.nil /\ num(raw.pos).k # "null")

\* C18: buildTierData and setSeasonRecord do not raise on the rows
\* parseDivisionTable returned; every returned row is kept, a cell without a
\* number becoming 0 in a required field and null in goalDifference and
\* goalAverage.
C18_ParsedRowsNeverRaise ==
    (call.op = "buildTierData" /\ "division" \in DOMAIN call)
        => /\ ~result.raised
           /\ LET stored == result.dataset[<<"1", "9", "5", "0">>][<<"t", "i", "e", "r", "1">>].table IN
              /\ Len(stored) = Len(ReturnedRows)
              /\ \A i \in 1..Len(stored) :
                    /\ stored[i].team = ReturnedRows[i].team
                    /\ ReturnedRows[i].points.k \in {"text", "empty", "null"} => stored[i].points = Num(0)
                    /\ ReturnedRows[i].goalDifference.k \in {"text", "empty", "null"}
                          => stored[i].goalDifference = Null

\* the table a call parsed and the rows it returned for it
ParsedTable ==
    IF call.op = "parseDivisionTable" THEN call.table ELSE call.page[Len(call.page)]
ParsedRows ==
    IF call.op = "parseDivisionTable" THEN result.rows
    ELSE IF result.overview = <<>> THEN <<>> ELSE result.overview[1].rows
ParsedAsTopFlight ==
    IF call.op = "parseDivisionTable" THEN call.division = <<"f", "i", "r", "s", "t">>
    ELSE shouldTreatAsTopFlight(ParsedTable.title,
             [hasPremierLeagueHeading |-> hasPremierLeagueHeading(call.page)])

\* the <tr> (by index) behind the rows returned: those with a team and a position
RECURSIVE ReturnedIndexes(_, _)
ReturnedIndexes(rows, i) ==
    IF i > Len(rows) THEN <<>>
    ELSE (IF ~rows[i].team.nil /\ rows[i].pos.k \in {"num", "numstr"} THEN <<i>> ELSE <<>>)
         \o ReturnedIndexes(rows, i + 1)

\* the notes of the i-th <tr>: its own cell's text, or the text of the last
\* notes cell above it when that cell's rowspan reaches down to it
SpannedNotesOf(rows, i) ==
    LET cells == {j \in 1..i : rows[j].notesCell.present} IN
    IF cells = {} THEN NullStr
    ELSE LET last == CHOOSE j \in cells : \A k \in cells : k <= j IN
         IF last = i THEN rows[i].notesCell.text
         ELSE IF rows[last].notesCell.rowspan > 1 /\ i - last <= rows[last].notesCell.rowspan - 1
         THEN rows[last].notesCell.text
         ELSE NullStr

\* C22: in parseDivisionTable and parseLeagueTable, after a notes cell with
\* rowspan k > 1 exactly the next k-1 rows without a notes cell of their own
\* have that cell's text as notes, and the outcome flags derived from it; a
\* later row without a notes cell has notes null; a row with its own notes
\* cell has its own text, and the carry starts again from that cell.
C22_RowspanCarry ==
    call.op \in {"parseDivisionTable", "parseOverviewLeagueTables"} =>
        LET rows == ParsedTable.rows
            returned == ReturnedIndexes(rows, 1)
            parsed == ParsedRows
        IN /\ Len(parsed) = Len(returned)
           /\ \A n \in 1..Len(parsed) :
                 LET notes == SpannedNotesOf(rows, returned[n]) IN
                 /\ parsed[n].notes = notes
                 /\ wasRelegated(notes) => parsed[n].wasRelegated = Bool(TRUE)
                 /\ (wasPromoted(notes) /\ ~ParsedAsTopFlight) => parsed[n].wasPromoted = Bool(TRUE)
                 /\ rows[returned[n]].symbols = {} =>
                       /\ parsed[n].wasRelegated = Bool(wasRelegated(notes))
                       /\ parsed[n].wasPromoted = Bool(~ParsedAsTopFlight /\ wasPromoted(notes))

\* a cell spanning two rows above two rows without a cell: the first has its
\* text and is promoted, the second has no notes
C22_Witness ==
    /\ call.op = "parseDivisionTable"
    /\ call.division = <<"s", "e", "c", "o", "n", "d">>
    /\ Len(call.table.rows) = 3
    /\ call.table.rows[1].notesCell = NotesCell(Str(<<"P", "r", "o", "m", "o", "t", "e", "d">>), 2)
    /\ ~call.table.rows[2].notesCell.present
    /\ ~call.table.rows[3].notesCell.present
    /\ Len(result.rows) = 3
    /\ result.rows[2].notes = Str(<<"P", "r", "o", "m", "o", "t", "e", "d">>)
    /\ result.rows[2].wasPromoted = Bool(TRUE)
    /\ result.rows[3].notes = NullStr
    /\ result.rows[3].wasPromoted = Bool(FALSE)

\* the nodes with a wikitable that follow the heading h before any other heading
TablesOfSection(nodes, h) ==
    {i \in (h + 1)..Len(nodes) :
        /\ nodes[i].tables > 0
        /\ \A j \in (h + 1)..(i - 1) : nodes[j].kind # "heading"}

\* the nodes after the heading h up to the next heading of its level or above
ReachOfHeading(nodes, h) ==
    {i \in (h + 1)..Len(nodes) :
        \A j \in (h + 1)..i : nodes[j].kind = "heading" => nodes[j].level > nodes[h].level}

RowsWithoutLegend ==
    IF call.op = "parseDivisionTable"
    THEN parseDivisionTable([call.table EXCEPT !.legend = <<>>], call.division)
    ELSE parseLeagueTable([ParsedTable EXCEPT !.legend = <<>>], ParsedAsTopFlight)

\* C24: applying the legend of a table changes nothing in a row but
\* wasPromoted and wasRelegated, and these only from false to true: a flag
\* true from the notes stays true, a row without a symbol of the legend is
\* unchanged, and outside top-flight tables a row whose notes do not say
\* promoted and whose team cell has a symbol the legend maps to promoted has
\* wasPromoted = true.
C24_LegendOnlyTurnsFlagsOn ==
    call.op \in {"parseDivisionTable", "parseOverviewLeagueTables"} =>
        LET before == RowsWithoutLegend
            after == ParsedRows
            raws == ParsedTable.rows
            returned == ReturnedIndexes(raws, 1)
            legendMap == parseLegendText(ParsedTable.legend)
        IN /\ Len(after) = Len(before)
           /\ \A n \in 1..Len(after) :
                 LET symbols == raws[returned[n]].symbols \cap DOMAIN legendMap IN
                 /\ [after[n] EXCEPT !.wasPromoted = Bool(FALSE), !.wasRelegated = Bool(FALSE)]
                      = [before[n] EXCEPT !.wasPromoted = Bool(FALSE), !.wasRelegated = Bool(FALSE)]
                 /\ before[n].wasPromoted = Bool(TRUE) => after[n].wasPromoted = Bool(TRUE)
                 /\ before[n].wasRelegated = Bool(TRUE) => after[n].wasRelegated = Bool(TRUE)
                 /\ symbols = {} => after[n] = before[n]
                 /\ (~ParsedAsTopFlight /\ \E symbol \in symbols : legendMap[symbol].promoted)
                        => after[n].wasPromoted = Bool(TRUE)

\* a second-division table with the legend "(P) Promoted": the row without
\* notes and with (P) is promoted, the row relegated by its notes with (P) is
\* still relegated
C24_Witness ==
    /\ call.op = "parseDivisionTable"
    /\ call.division = <<"s", "e", "c", "o", "n", "d">>
    /\ call.table.legend = <<LegendEntry("C", <<"C", "h", "a", "m", "p", "i", "o", "n", "s">>), LegendEntry("P", <<"P", "r", "o", "m", "o", "t", "e", "d">>)>>
    /\ Len(call.table.rows) = 2
    /\ call.table.rows[1].notesCell = NotesCell(NullStr, 1)
    /\ call.table.rows[1].symbols = {"P"}
    /\ call.table.rows[2].notesCell = NotesCell(Str(<<"R", "e", "l", "e", "g", "a", "t", "e", "d">>), 1)
    /\ call.table.rows[2].symbols = {"P"}
    /\ Len(result.rows) = 2
    /\ result.rows[1].wasPromoted = Bool(TRUE)
    /\ result.rows[1].wasRelegated = Bool(FALSE)
    /\ result.rows[2].wasPromoted = Bool(TRUE)
    /\ result.rows[2].wasRelegated = Bool(TRUE)
-----------------------------------------------------------------------------
(* Claims about the season loops (SpecScrape) *)

Range == run.startYear..run.endYear

\* the fetches of the run that were for the year
FetchesOf(y) == {i \in 1..Len(fetches) : fetches[i].year = y}

\* the run has requested the page of the year
Requested(y) == FetchesOf(y) # {} \/ (at = "fetching" /\ loopYear = y)

\* a tier record with nothing in it
IsPlaceholderTier(tier) ==
    /\ tier.kind = "object"
    /\ tier.table = <<>>
    /\ tier.promoted = List(<<>>)
    /\ tier.relegated = List(<<>>)

IsPlaceholderRecord(record) ==
    /\ DOMAIN record # {}
    /\ \A tierKey \in DOMAIN record : IsPlaceholderTier(record[tierKey])

HadRecord(y) == run.program # "scrape" /\ String(y) \in DOMAIN run.found.seasons

\* C13: a season whose page could not be fetched and that had no record is
\* stored as a record of empty tiers (empty table, empty promoted and
\* relegated), and once a run without ignoreWarYears has gone through its range
\* every year of the range is a key of the dataset.
C13_FailedFetchIsRecorded ==
    /\ \A i \in 1..Len(fetches) :
          (~fetches[i].ok /\ ~HadRecord(fetches[i].year))
          => /\ String(fetches[i].year) \in DOMAIN seasonData
             /\ IsPlaceholderRecord(seasonData[String(fetches[i].year)])
    /\ (at = "done" /\ ~run.options.ignoreWarYears)
          => \A y \in Range : String(y) \in DOMAIN seasonData

C13_Witness ==
    /\ at = "done"
    /\ ~run.options.ignoreWarYears
    /\ run.endYear > run.startYear
    /\ \E i \in 1..Len(fetches) :
          /\ ~fetches[i].ok
          /\ ~HadRecord(fetches[i].year)
          /\ isWarSuspensionYear(fetches[i].year)

IsWikipediaLoop == run.program \in {"buildPromotionRelegation", "buildSeasonOverview"}

\* the fetch left the record of its year as it was (forceUpdate, nothing returned)
KeptExisting(i) ==
    /\ run.options.forceUpdate
    /\ HadRecord(fetches[i].year)
    /\ \A t \in 1..Len(fetches[i].tables) : Len(fetches[i].tables[t].rows) = 0

\* the seasons whose record the run has set so far
FinishedSeasons == {String(fetches[i].year) : i \in {j \in 1..Len(fetches) : ~KeptExisting(j)}}

\* the record built from what the fetch delivered, normalised, and nothing else
CompleteRecord(i) ==
    storeSeason(run.program, EmptyMap, fetches[i].year, fetches[i])[String(fetches[i].year)]

\* C14: in buildPromotionRelegation and buildSeasonOverview the seasons are
\* handled in increasing year order, and in every state, the states in which
\* the run was interrupted included, the output file is the file found at the
\* start or holds the whole dataset: the seasons found at the start and those
\* finished so far, each finished season with the complete record built from
\* its page in place of whatever record the key had before.
C14_FileHoldsFinishedSeasons ==
    IsWikipediaLoop =>
        /\ \A i, j \in 1..Len(fetches) : i < j => fetches[i].year < fetches[j].year
        /\ \A i \in 1..Len(fetches) : fetches[i].year < loopYear
        /\ seasonData = outputFile.seasons
        /\ outputFile.kind \in {"absent", "complete"}
        /\ outputFile.kind = "absent" => FinishedSeasons = {}
        /\ DOMAIN outputFile.seasons = DOMAIN run.found.seasons \cup FinishedSeasons
        /\ \A i \in 1..Len(fetches) :
              ~KeptExisting(i) => outputFile.seasons[String(fetches[i].year)] = CompleteRecord(i)
        /\ \A key \in DOMAIN run.found.seasons \ FinishedSeasons :
              outputFile.seasons[key] = run.found.seasons[key]

\* interrupted during the second fetch, after the first replaced a record
\* that had more tiers than the new one
C14_Witness ==
    /\ IsWikipediaLoop
    /\ at = "exited"
    /\ Len(fetches) = 1
    /\ ~KeptExisting(1)
    /\ HadRecord(fetches[1].year)
    /\ DOMAIN run.found.seasons[String(fetches[1].year)] \ DOMAIN CompleteRecord(1) # {}

\* C15: when SIGINT arrives while the range mode of rsssf/cli.js runs, the file
\* left at exit is a complete dataset (neither truncated nor mixed from two
\* saves) that holds every season finished before the interrupt.
C15_InterruptLeavesCompleteFile ==
    (run.program = "scrape" /\ at = "exited")
        => /\ outputFile.kind = "complete"
           /\ interrupt.finished \subseteq DOMAIN outputFile.seasons

UpdateOnlyRun == IsWikipediaLoop /\ run.options.updateOnly /\ ~run.options.forceUpdate

\* the years the loop has gone through
HandledYears == {y \in Range : y < loopYear}

\* the record found for the year has a tier with a non-empty table
HasTierWithRows(y) ==
    /\ String(y) \in DOMAIN run.found.seasons
    /\ \E key \in DOMAIN run.found.seasons[String(y)] :
          isTierKey(key) /\ Len(run.found.seasons[String(y)][key].table) > 0

IsWritten(y) ==
    \E i \in FetchesOf(y) :
        /\ String(y) \in DOMAIN outputFile.seasons
        /\ outputFile.seasons[String(y)] = CompleteRecord(i)

HasOwnTierWithRows(y) ==
    /\ String(y) \in DOMAIN run.found.seasons
    /\ \E key \in DOMAIN run.found.seasons[String(y)] :
          /\ Len(run.found.seasons[String(y)][key].table) > 0
          /\ \/ key \in {<<"t", "i", "e", "r", "1">>, <<"t", "i", "e", "r", "2">>}
             \/ run.program = "buildSeasonOverview" /\ isNumberedTierKey(key)

ScraperWarYears == (1915..1919) \cup (1940..1946)

IgnoreWarYearsRun == IsWikipediaLoop /\ run.options.ignoreWarYears

\* the year is left alone because of the data its record has
SkippedForItsData(y) == run.options.updateOnly /\ ~run.options.forceUpdate /\ HasOwnTierWithRows(y)

\* C17: with ignoreWarYears, buildSeasonOverview and buildPromotionRelegation
\* never fetch a year of 1915..1919 or 1940..1946 and add no record for it (a
\* record found for it stays as it is); every other year the loop has gone
\* through was dealt with as without the option: fetched unless updateOnly
\* skips it, and written unless forceUpdate keeps the record for want of data.
C17_WarYearsAreLeftOut ==
    IgnoreWarYearsRun =>
        \A y \in Range :
            IF y \in ScraperWarYears
            THEN /\ ~Requested(y)
                 /\ String(y) \in DOMAIN seasonData
                       => /\ String(y) \in DOMAIN run.found.seasons
                          /\ seasonData[String(y)] = run.found.seasons[String(y)]
                 /\ String(y) \in DOMAIN outputFile.seasons => String(y) \in DOMAIN run.found.seasons
            ELSE y \in HandledYears
                    => /\ Requested(y) <=> ~SkippedForItsData(y)
                       /\ \A i \in FetchesOf(y) : KeptExisting(i) \/ IsWritten(y)

\* a finished run over a range that ends one year after a war
C17_Witness ==
    /\ IgnoreWarYearsRun
    /\ at = "done"
    /\ run.startYear \in {1919, 1946}
    /\ ~Requested(run.startYear)
    /\ String(run.startYear) \notin DOMAIN seasonData
    /\ run.endYear = run.startYear + 1
    /\ IsWritten(run.endYear)

\* the fetch delivered no table row
ReturnedNoRows(i) == \A t \in 1..Len(fetches[i].tables) : Len(fetches[i].tables[t].rows) = 0

\* C27: with forceUpdate, when the year already has a record and the fetch
\* returns no table rows (a failed fetch included), buildSeasonOverview and
\* buildPromotionRelegation leave the record of the year, in the dataset and
\* in the file, as it was found.
C27_ForcedRebuildKeepsRecord ==
    (IsWikipediaLoop /\ run.options.forceUpdate) =>
        \A i \in 1..Len(fetches) :
            LET seasonKey == String(fetches[i].year) IN
            (seasonKey \in DOMAIN run.found.seasons /\ ReturnedNoRows(i))
            => /\ seasonKey \in DOMAIN seasonData
               /\ seasonData[seasonKey] = run.found.seasons[seasonKey]
               /\ seasonKey \in DOMAIN outputFile.seasons
               /\ outputFile.seasons[seasonKey] = run.found.seasons[seasonKey]

\* a finished forced run whose first year had a record with rows and whose
\* fetch for that year failed
C27_Witness ==
    /\ IsWikipediaLoop
    /\ run.options.forceUpdate
    /\ at = "done"
    /\ Len(fetches) >= 1
    /\ fetches[1].year = run.startYear
    /\ ~fetches[1].ok
    /\ String(run.startYear) \in DOMAIN run.found.seasons
    /\ HasOwnTierWithRows(run.startYear)
    /\ seasonData[String(run.startYear)] = run.found.seasons[String(run.startYear)]
-----------------------------------------------------------------------------
(* Claims about the RSSSF parser (SpecRsssf) *)

\* the tokens i+1 .. i+n are all integers
IsNumericRun(tokens, i, n) ==
    /\ i + n <= Len(tokens)
    /\ \A j \in 1..n : isNumericToken(tokens[i + j])

RunStarts(tokens) == {i \in 0..Len(tokens) : IsNumericRun(tokens, i, 12)}

\* C19 as stated: in the row "1  BLACKBURN ROVERS  30 10 5 0 30 10 10 5 0 30 10 50"
\* the parser locates the 13-token numeric run and recovers points 50, home
\* wins 10 and away wins 10.
C19_ExampleHasRunOfThirteen ==
    (call.op = "parseTableRow" /\ call.line = ExampleRow)
        => LET statStart == findStatsStart(Tail(split(call.line))) IN
           /\ statStart.found
           /\ statStart.length = 13
           /\ result.row.ok
           /\ result.row.points = 50
           /\ result.row.homeRecord.wins = 10
           /\ result.row.awayRecord.wins = 10

\* C19 (amended): parseTableRow takes the first token as position, finds the
\* first place among the other tokens where 12 consecutive tokens are integers,
\* takes 13 there if the next token is an integer too, the tokens before as
\* team name and those after as footnote markers, and returns no row when
\* there is no such place, no team name or no digit in the position; the
\* example row has 12 integers, so the run found is the 12-token one at the
\* third token, goal difference is computed (40), points 50, home wins 10,
\* away wins 10.
C19_StatWindow ==
    call.op = "parseTableRow" =>
        LET tokens == split(call.line)
            rest == Tail(tokens)
            starts == RunStarts(rest)
            first == CHOOSE i \in starts : \A j \in starts : i <= j
            length == IF IsNumericRun(rest, first, 13) THEN 13 ELSE 12
            row == result.row
        IN
        /\ row.ok <=> /\ Len(tokens) >= 13
                      /\ starts # {}
                      /\ first > 0
                      /\ digitsOnly(Head(tokens)) # <<>>
        /\ row.ok =>
              /\ row.pos = parseInt(digitsOnly(Head(tokens))).n
              /\ row.team = join(SubSeq(rest, 1, first))
              /\ row.markers = SubSeq(rest, first + length + 1, Len(rest))
              /\ row.played = intOf(rest[first + 1])
              /\ row.homeRecord.wins = intOf(rest[first + 2])
              /\ row.awayRecord.wins = intOf(rest[first + 7])
              /\ row.points = intOf(rest[first + length])
        /\ call.line = ExampleRow =>
              /\ row.ok
              /\ first = 2 /\ length = 12
              /\ row.team = <<"B", "L", "A", "C", "K", "B", "U", "R", "N", " ", "R", "O", "V", "E", "R", "S">>
              /\ row.points = 50
              /\ row.homeRecord.wins = 10
              /\ row.awayRecord.wins = 10
              /\ row.goalDifference = 40
              /\ row.played = 30 /\ row.won = 20

C19_Witness ==
    /\ call.op = "parseTableRow"
    /\ call.line = ExampleRow
    /\ result.row.ok
    /\ result.row.points = 50
    /\ result.row.markers = <<>>

\* C20: in every row parseCompetitionBlock returns, a footnote text attached to
\* the row that says promoted (relegated) makes wasPromoted (wasRelegated)
\* true, whatever the case of the team name and the half of the table.
C20_FootnoteSignalSetsFlag ==
    (call.op = "parseCompetitionBlock" /\ result.competition.ok) =>
        \A i \in 1..Len(result.competition.rows) :
            LET row == result.competition.rows[i]
                loweredNotes == toLowerCase(row.notes.s)
            IN /\ noteSaysPromoted(loweredNotes) => row.wasPromoted
               /\ noteSaysRelegated(loweredNotes) => row.wasRelegated

\* the lines below the column header that parseTableRow accepts as rows
AcceptedLines(lines, isFirstDivisionTable) ==
    {idx \in 3..Len(lines) :
        /\ isTableDataLine(trim(lines[idx]))
        /\ parseTableRow(lines[idx], Len(lines), isFirstDivisionTable).ok}

\* C21: a line of the block that starts with a position number and is rejected
\* as a row is dropped alone: every line parseTableRow accepts, also one below
\* a rejected line, is among the rows parseCompetitionBlock returns.
C21_RejectedRowIsDroppedAlone ==
    call.op = "parseCompetitionBlock" =>
        LET accepted == AcceptedLines(call.lines, call.isFirstDivision) IN
        accepted # {} =>
            /\ result.competition.ok
            /\ Len(result.competition.rows) = Cardinality(accepted)
====
